---- MODULE Spec2Model ----
(***************************************************************************)
(* Model of the agent-invocation streaming client of agentcore-cdk-steps   *)
(* (src/frontend/src/agentcore.ts): invokeAgentCoreDirect, the buffered    *)
(* decoder processNonStreamingResponse and the SSE decoder                 *)
(* processSSEStream.                                                       *)
(*                                                                         *)
(* A JavaScript string is modelled as a sequence of UTF-16 code units      *)
(* (naturals), a byte array as a sequence of naturals in 0..255.           *)
(***************************************************************************)
EXTENDS Integers, Sequences, FiniteSets, TLC

(***************************************************************************)
(* String literals of the source, as code-unit sequences.                  *)
(***************************************************************************)
\* 'data:'  (agentcore.ts:123)
DataPrefix == <<100, 97, 116, 97, 58>>
\* 'event:' (agentcore.ts:140)
EventPrefix == <<101, 118, 101, 110, 116, 58>>
\* 'id:'    (agentcore.ts:140)
IdPrefix == <<105, 100, 58>>
\* '[DONE]' (agentcore.ts:125)
DoneSentinel == <<91, 68, 79, 78, 69, 93>>
\* '\n'     (agentcore.ts:121)
Newline == <<10>>
\* '\n\n'   (agentcore.ts:117)
BlankLine == <<10, 10>>
\* property names read by the decoders (agentcore.ts:91, 129)
KeyDelta == <<100, 101, 108, 116, 97>>
KeyText == <<116, 101, 120, 116>>
KeyContent == <<99, 111, 110, 116, 101, 110, 116>>
KeyResponse == <<114, 101, 115, 112, 111, 110, 115, 101>>
\* 'text/event-stream' (agentcore.ts:73)
SSEMediaType == <<116, 101, 120, 116, 47, 101, 118, 101, 110, 116, 45, 115, 116, 114, 101, 97, 109>>

(***************************************************************************)
(* String.prototype operations used by the source.                         *)
(***************************************************************************)
Min(a, b) == IF a < b THEN a ELSE b

\* s.slice(n): the code units after the first n
Slice(s, n) == SubSeq(s, n + 1, Len(s))

\* s.startsWith(p)
StartsWith(s, p) == Len(s) >= Len(p) /\ SubSeq(s, 1, Len(p)) = p

\* whether p occurs in s at index i (1-based)
OccursAt(s, p, i) == i + Len(p) - 1 <= Len(s) /\ SubSeq(s, i, i + Len(p) - 1) = p

\* s.includes(p)
Includes(s, p) == \E i \in 1..(Len(s) + 1) : OccursAt(s, p, i)

\* ECMAScript WhiteSpace and LineTerminator code units, as stripped by trim()
IsJSSpace(c) ==
    \/ c \in {9, 10, 11, 12, 13, 32, 160, 5760, 8232, 8233, 8239, 8287, 12288, 65279}
    \/ (c >= 8192 /\ c <= 8202)

RECURSIVE TrimStart(_)
TrimStart(s) ==
    IF s # <<>> /\ IsJSSpace(Head(s)) THEN TrimStart(Tail(s)) ELSE s

RECURSIVE TrimEnd(_)
TrimEnd(s) ==
    IF s # <<>> /\ IsJSSpace(s[Len(s)]) THEN TrimEnd(SubSeq(s, 1, Len(s) - 1)) ELSE s

\* Trim, were whitespace stripped at the start only (s.trimStart())
TrimLeading(s) == TrimStart(s)

\* s.trim(): whitespace is stripped at both ends
Trim(s) == TrimEnd(TrimStart(s))

\* s.indexOf(p, i): the first index from i on at which p occurs, 0 when none
\* (indices are 1-based)
IndexOf(s, p, i) ==
    IF \E j \in i..Len(s) : OccursAt(s, p, j)
    THEN CHOOSE j \in i..Len(s) :
             OccursAt(s, p, j) /\ \A k \in i..(j - 1) : ~OccursAt(s, p, k)
    ELSE 0

\* s.split(sep) for a non-empty separator: leftmost, non-overlapping matches;
\* the result always has at least one element
RECURSIVE SplitFrom(_, _, _)
SplitAt(s, sep, start, j) ==
    IF j = 0 THEN <<SubSeq(s, start, Len(s))>>
    ELSE <<SubSeq(s, start, j - 1)>> \o SplitFrom(s, sep, j + Len(sep))

SplitFrom(s, sep, start) == SplitAt(s, sep, start, IndexOf(s, sep, start))

Split(s, sep) == SplitFrom(s, sep, 1)

\* concatenation of the strings ss[lo..hi]
RECURSIVE ConcatRange(_, _, _)
ConcatRange(ss, lo, hi) ==
    IF lo > hi THEN <<>>
    ELSE IF lo = hi THEN ss[lo]
    ELSE ConcatRange(ss, lo, (lo + hi) \div 2) \o ConcatRange(ss, (lo + hi) \div 2 + 1, hi)

\* concatenation of a sequence of strings
Concat(ss) == ConcatRange(ss, 1, Len(ss))

(***************************************************************************)
(* TextDecoder (UTF-8, fatal: false, ignoreBOM: false) used with           *)
(* { stream: true }: the decoder keeps an incomplete multi-byte sequence   *)
(* between calls.  `need' is the number of continuation bytes the current  *)
(* character takes, `seen' those consumed, `cp' the code point so far,     *)
(* lo..hi the range allowed for the next continuation byte, and `bom'      *)
(* whether the first code point (a BOM is dropped there) has been passed.  *)
(***************************************************************************)
DecoderInit == [need |-> 0, seen |-> 0, cp |-> 0, lo |-> 128, hi |-> 191, bom |-> FALSE]

\* the UTF-16 code units of code point cp
CodeUnits(cp) ==
    IF cp < 65536 THEN <<cp>>
    ELSE <<55296 + ((cp - 65536) \div 1024), 56320 + ((cp - 65536) % 1024)>>

\* the code units emitted for code point cp: a leading U+FEFF is the byte
\* order mark and is dropped
Emitted(d, cp) == IF ~d.bom /\ cp = 65279 THEN <<>> ELSE CodeUnits(cp)

\* the decoder after a character has been emitted
AfterEmit(d) == [need |-> 0, seen |-> 0, cp |-> 0, lo |-> 128, hi |-> 191, bom |-> TRUE]

\* one byte through the decoder; `again' asks for the byte to be reprocessed
\* (an invalid continuation byte ends the sequence with U+FFFD and is read anew)
DecodeByte(d, b) ==
    IF d.need = 0
    THEN IF b <= 127
         THEN [st |-> IF d.bom THEN d ELSE AfterEmit(d), out |-> <<b>>, again |-> FALSE]
         ELSE IF b >= 194 /\ b <= 223
              THEN [st |-> [d EXCEPT !.need = 1, !.cp = b - 192], out |-> <<>>, again |-> FALSE]
         ELSE IF b >= 224 /\ b <= 239
              THEN [st |-> [d EXCEPT !.need = 2, !.cp = b - 224,
                                     !.lo = IF b = 224 THEN 160 ELSE 128,
                                     !.hi = IF b = 237 THEN 159 ELSE 191],
                    out |-> <<>>, again |-> FALSE]
         ELSE IF b >= 240 /\ b <= 244
              THEN [st |-> [d EXCEPT !.need = 3, !.cp = b - 240,
                                     !.lo = IF b = 240 THEN 144 ELSE 128,
                                     !.hi = IF b = 244 THEN 143 ELSE 191],
                    out |-> <<>>, again |-> FALSE]
         ELSE [st |-> AfterEmit(d), out |-> <<65533>>, again |-> FALSE]
    ELSE IF b < d.lo \/ b > d.hi
         THEN [st |-> AfterEmit(d), out |-> <<65533>>, again |-> TRUE]
         ELSE IF d.seen + 1 = d.need
              THEN [st |-> AfterEmit(d), out |-> Emitted(d, d.cp * 64 + (b - 128)),
                    again |-> FALSE]
              ELSE [st |-> [d EXCEPT !.seen = @ + 1, !.cp = @ * 64 + (b - 128),
                                     !.lo = 128, !.hi = 191],
                    out |-> <<>>, again |-> FALSE]

\* decoder.decode(value, { stream: true }): the text of the bytes that complete
\* characters, and the decoder state holding the incomplete rest
\* a decoding result r preceded by the text `out' decoded before it
After(out, r) == [st |-> r.st, out |-> out \o r.out]

\* one byte through the decoder, reprocessed when the decoder asks for it
Reprocess(r, b) == IF r.again THEN After(r.out, DecodeByte(r.st, b)) ELSE [st |-> r.st, out |-> r.out]
DecodeOne(d, b) == Reprocess(DecodeByte(d, b), b)

\* the bytes lo..hi through the decoder, in order.  The range is halved, and
\* the first half is evaluated (its state inspected) before the second is
\* entered, so that the evaluation nests only logarithmically deep; a character
\* never takes more than 3 continuation bytes.
RECURSIVE DecodeRange(_, _, _, _)
DecodeSecondHalf(left, bytes, lo, hi) ==
    IF left.st.need \in 0..3
    THEN After(left.out, DecodeRange(left.st, bytes, lo, hi))
    ELSE left

DecodeRange(d, bytes, lo, hi) ==
    IF lo > hi THEN [st |-> d, out |-> <<>>]
    ELSE IF lo = hi THEN DecodeOne(d, bytes[lo])
    ELSE DecodeSecondHalf(DecodeRange(d, bytes, lo, (lo + hi) \div 2),
                          bytes, (lo + hi) \div 2 + 1, hi)

Decode(d, bytes) == DecodeRange(d, bytes, 1, Len(bytes))

\* new TextDecoder().decode(bytes): one-shot decoding; an incomplete sequence at
\* the end is flushed as U+FFFD
Flush(r) == IF r.st.need > 0 THEN r.out \o <<65533>> ELSE r.out
DecodeAll(bytes) == Flush(Decode(DecoderInit, bytes))

\* TextEncoder().encode(s) for the code units the model uses (no surrogates)
EncodeUnit(c) ==
    IF c < 128 THEN <<c>>
    ELSE IF c < 2048 THEN <<192 + (c \div 64), 128 + (c % 64)>>
    ELSE <<224 + (c \div 4096), 128 + ((c \div 64) % 64), 128 + (c % 64)>>

Encode(s) == Concat([i \in 1..Len(s) |-> EncodeUnit(s[i])])

(***************************************************************************)
(* JavaScript values, as JSON.parse produces them.  Every value is a       *)
(* record [t, s, kids]: t the type tag, s the text of a string or the      *)
(* literal of a number, kids the elements of an array or the <<key,        *)
(* value>> members of an object in source order.                           *)
(***************************************************************************)
Undefined == [t |-> "undefined", s |-> <<>>, kids |-> <<>>]
JNull == [t |-> "null", s |-> <<>>, kids |-> <<>>]
JBool(b) == [t |-> IF b THEN "true" ELSE "false", s |-> <<>>, kids |-> <<>>]
JNum(lit) == [t |-> "number", s |-> lit, kids |-> <<>>]
JStr(str) == [t |-> "string", s |-> str, kids |-> <<>>]
JArr(elems) == [t |-> "array", s |-> <<>>, kids |-> elems]
JObj(members) == [t |-> "object", s |-> <<>>, kids |-> members]

\* whether a number literal denotes zero: every digit of its mantissa is 0
RECURSIVE IsZeroLiteral(_)
IsZeroLiteral(lit) ==
    \/ lit = <<>>
    \/ Head(lit) \in {69, 101}
    \/ Head(lit) \in {45, 46, 48} /\ IsZeroLiteral(Tail(lit))

\* ToBoolean(v), as || and && apply it
Truthy(v) ==
    CASE v.t \in {"undefined", "null", "false"} -> FALSE
      [] v.t = "number" -> ~IsZeroLiteral(v.s)
      [] v.t = "string" -> v.s # <<>>
      [] OTHER -> TRUE

\* typeof v === 'string'
IsString(v) == v.t = "string"

\* v[key] for a value that is neither null nor undefined: the last member of
\* that name for an object, undefined for any other value (none of the names
\* the source reads is a property of a string, number, boolean or array)
RECURSIVE Lookup(_, _)
Lookup(members, key) ==
    IF members = <<>> THEN Undefined
    ELSE LET m == members[Len(members)]
         IN  IF m[1] = key THEN m[2] ELSE Lookup(SubSeq(members, 1, Len(members) - 1), key)

Get(v, key) == IF v.t = "object" THEN Lookup(v.kids, key) ELSE Undefined

\* whether v.key raises a TypeError
GetThrows(v) == v.t \in {"null", "undefined"}

(***************************************************************************)
(* JSON.parse(text): [ok, v]; ok = FALSE stands for the SyntaxError.       *)
(***************************************************************************)
IsJSONSpace(c) == c \in {9, 10, 13, 32}
IsDigit(c) == c >= 48 /\ c <= 57
At(s, i) == IF i >= 1 /\ i <= Len(s) THEN s[i] ELSE -1
ParseFail == [ok |-> FALSE, v |-> Undefined, i |-> 0]

RECURSIVE SkipWS(_, _)
SkipWS(s, i) == IF IsJSONSpace(At(s, i)) THEN SkipWS(s, i + 1) ELSE i

RECURSIVE DigitsEnd(_, _)
DigitsEnd(s, i) == IF IsDigit(At(s, i)) THEN DigitsEnd(s, i + 1) ELSE i

HexVal(c) ==
    IF IsDigit(c) THEN c - 48
    ELSE IF c >= 65 /\ c <= 70 THEN c - 55
    ELSE IF c >= 97 /\ c <= 102 THEN c - 87
    ELSE -1

\* the character a single-letter escape stands for, -1 when it is none
EscapeChar(c) ==
    CASE c \in {34, 47, 92} -> c
      [] c = 98 -> 8
      [] c = 102 -> 12
      [] c = 110 -> 10
      [] c = 114 -> 13
      [] c = 116 -> 9
      [] OTHER -> -1

\* the rest of a string literal from index i on (the opening quote is before i)
RECURSIVE ScanString(_, _, _)
ScanString(s, i, acc) ==
    LET c == At(s, i)
    IN  IF c < 32 THEN ParseFail
        ELSE IF c = 34 THEN [ok |-> TRUE, v |-> JStr(acc), i |-> i + 1]
        ELSE IF c # 92 THEN ScanString(s, i + 1, Append(acc, c))
        ELSE IF At(s, i + 1) = 117
             THEN LET h == [k \in 1..4 |-> HexVal(At(s, i + 1 + k))]
                  IN  IF \E k \in 1..4 : h[k] < 0 THEN ParseFail
                      ELSE ScanString(s, i + 6,
                               Append(acc, h[1] * 4096 + h[2] * 256 + h[3] * 16 + h[4]))
             ELSE IF EscapeChar(At(s, i + 1)) < 0 THEN ParseFail
                  ELSE ScanString(s, i + 2, Append(acc, EscapeChar(At(s, i + 1))))

\* a number literal starting at i: -? int frac? exp?
ParseNumber(s, i) ==
    LET a == IF At(s, i) = 45 THEN i + 1 ELSE i
        b == IF At(s, a) = 48 THEN a + 1 ELSE DigitsEnd(s, a)
        fracEnd == IF At(s, b) = 46 THEN DigitsEnd(s, b + 1) ELSE b
        fracOk == At(s, b) # 46 \/ fracEnd > b + 1
        e == IF At(s, fracEnd) \in {69, 101}
             THEN (IF At(s, fracEnd + 1) \in {43, 45} THEN fracEnd + 2 ELSE fracEnd + 1)
             ELSE fracEnd
        expEnd == IF At(s, fracEnd) \in {69, 101} THEN DigitsEnd(s, e) ELSE fracEnd
        expOk == At(s, fracEnd) \notin {69, 101} \/ expEnd > e
    IN  IF b > a /\ fracOk /\ expOk
        THEN [ok |-> TRUE, v |-> JNum(SubSeq(s, i, expEnd - 1)), i |-> expEnd]
        ELSE ParseFail

RECURSIVE ParseValue(_, _)
RECURSIVE ParseMembers(_, _, _)
RECURSIVE ParseElements(_, _, _)

\* the value starting at index i (the caller has skipped white space)
ParseValue(s, i) ==
    LET c == At(s, i)
    IN  CASE c = 123 ->
                 IF At(s, SkipWS(s, i + 1)) = 125
                 THEN [ok |-> TRUE, v |-> JObj(<<>>), i |-> SkipWS(s, i + 1) + 1]
                 ELSE ParseMembers(s, SkipWS(s, i + 1), <<>>)
          [] c = 91 ->
                 IF At(s, SkipWS(s, i + 1)) = 93
                 THEN [ok |-> TRUE, v |-> JArr(<<>>), i |-> SkipWS(s, i + 1) + 1]
                 ELSE ParseElements(s, SkipWS(s, i + 1), <<>>)
          [] c = 34 -> ScanString(s, i + 1, <<>>)
          [] c = 45 \/ IsDigit(c) -> ParseNumber(s, i)
          [] c = 116 /\ OccursAt(s, <<116, 114, 117, 101>>, i) ->
                 [ok |-> TRUE, v |-> JBool(TRUE), i |-> i + 4]
          [] c = 102 /\ OccursAt(s, <<102, 97, 108, 115, 101>>, i) ->
                 [ok |-> TRUE, v |-> JBool(FALSE), i |-> i + 5]
          [] c = 110 /\ OccursAt(s, <<110, 117, 108, 108>>, i) ->
                 [ok |-> TRUE, v |-> JNull, i |-> i + 4]
          [] OTHER -> ParseFail

\* the members of an object from index i on: "key" : value (, "key" : value)* }
ParseMembers(s, i, acc) ==
    IF At(s, i) # 34 THEN ParseFail
    ELSE LET k == ScanString(s, i + 1, <<>>)
         IN  IF ~k.ok \/ At(s, SkipWS(s, k.i)) # 58 THEN ParseFail
             ELSE LET v == ParseValue(s, SkipWS(s, SkipWS(s, k.i) + 1))
                  IN  IF ~v.ok THEN ParseFail
                      ELSE LET j == SkipWS(s, v.i)
                               acc2 == Append(acc, <<k.v.s, v.v>>)
                           IN  IF At(s, j) = 125
                               THEN [ok |-> TRUE, v |-> JObj(acc2), i |-> j + 1]
                               ELSE IF At(s, j) = 44
                                    THEN ParseMembers(s, SkipWS(s, j + 1), acc2)
                                    ELSE ParseFail

\* the elements of an array from index i on: value (, value)* ]
ParseElements(s, i, acc) ==
    LET v == ParseValue(s, i)
    IN  IF ~v.ok THEN ParseFail
        ELSE LET j == SkipWS(s, v.i)
                 acc2 == Append(acc, v.v)
             IN  IF At(s, j) = 93
                 THEN [ok |-> TRUE, v |-> JArr(acc2), i |-> j + 1]
                 ELSE IF At(s, j) = 44
                      THEN ParseElements(s, SkipWS(s, j + 1), acc2)
                      ELSE ParseFail

JSONParse(text) ==
    LET r == ParseValue(text, SkipWS(text, 1))
    IN  IF r.ok /\ SkipWS(text, r.i) = Len(text) + 1
        THEN [ok |-> TRUE, v |-> r.v]
        ELSE [ok |-> FALSE, v |-> Undefined]

(***************************************************************************)
(* The sink.  onChunk is optional (agentcore.ts:22): a sink is a record    *)
(* [supplied, raisesAt], raisesAt being the set of call numbers at which   *)
(* the callback raises.  A decoding state is a record                      *)
(*   fullResponse  the accumulated response (agentcore.ts:106)             *)
(*   calls         the arguments the sink has been invoked with, in order  *)
(*   frags         history: the fragments appended to fullResponse         *)
(*   threw         whether an exception is propagating                     *)
(***************************************************************************)
NoSink == [supplied |-> FALSE, raisesAt |-> {}]
QuietSink == [supplied |-> TRUE, raisesAt |-> {}]

EmptyAcc == [fullResponse |-> <<>>, calls |-> <<>>, frags |-> <<>>, threw |-> FALSE]

\* if (onChunk) onChunk(fullResponse)
Publish(st, sink) ==
    IF ~sink.supplied THEN st
    ELSE [st EXCEPT !.calls = Append(@, st.fullResponse),
                    !.threw = (Len(st.calls) + 1) \in sink.raisesAt]

\* AppendAndPublish, were the sink handed the new fragment instead of the
\* accumulated text
AppendAndPublishDelta(st, fragment, sink) ==
    IF ~sink.supplied
    THEN [st EXCEPT !.fullResponse = @ \o fragment, !.frags = Append(@, fragment)]
    ELSE [st EXCEPT !.fullResponse = @ \o fragment, !.frags = Append(@, fragment),
                    !.calls = Append(@, fragment),
                    !.threw = (Len(st.calls) + 1) \in sink.raisesAt]

\* fullResponse += fragment; if (onChunk) onChunk(fullResponse)
AppendAndPublish(st, fragment, sink) ==
    Publish([st EXCEPT !.fullResponse = @ \o fragment, !.frags = Append(@, fragment)], sink)

\* delta?.text: undefined when delta is null or undefined
OptionalText(delta) ==
    IF delta.t \in {"null", "undefined"} THEN Undefined ELSE Get(delta, KeyText)

\* FirstTruthy, were the first value that is present taken (a ?? b ?? c ?? d)
FirstDefined(a, b, c, d) ==
    IF a.t \notin {"undefined", "null"} THEN a
    ELSE IF b.t \notin {"undefined", "null"} THEN b
    ELSE IF c.t \notin {"undefined", "null"} THEN c ELSE d

\* a || b || c || d
FirstTruthy(a, b, c, d) ==
    IF Truthy(a) THEN a ELSE IF Truthy(b) THEN b ELSE IF Truthy(c) THEN c ELSE d

\* parsed.delta?.text || parsed.text || parsed.content || parsed
\* (evaluated for a parsed value that is not null)
ChunkOf(parsed) ==
    FirstTruthy(OptionalText(Get(parsed, KeyDelta)), Get(parsed, KeyText),
                Get(parsed, KeyContent), parsed)

\* the catch block of the read loop, entered once the sink has raised in the
\* try block: fullResponse += data; if (onChunk) onChunk(fullResponse)
CatchSinkError(t, data, sink) ==
    IF t.threw THEN AppendAndPublish([t EXCEPT !.threw = FALSE], data, sink) ELSE t

\* ProcessChunk, were a chunk that is not a string appended as the text of its
\* payload
ProcessChunkCoerce(st, data, chunk, sink) ==
    IF IsString(chunk)
    THEN (IF chunk.s # <<>>
          THEN CatchSinkError(AppendAndPublish(st, chunk.s, sink), data, sink)
          ELSE st)
    ELSE CatchSinkError(AppendAndPublish(st, data, sink), data, sink)

\* if (typeof chunk === 'string' && chunk) { fullResponse += chunk; ... }
ProcessChunk(st, data, chunk, sink) ==
    IF IsString(chunk) /\ chunk.s # <<>>
    THEN CatchSinkError(AppendAndPublish(st, chunk.s, sink), data, sink)
    ELSE st

\* ProcessParsed, were a payload that fails to parse skipped
ProcessParsedStrict(st, data, parsed, sink) ==
    IF ~parsed.ok \/ GetThrows(parsed.v)
    THEN st
    ELSE ProcessChunk(st, data, ChunkOf(parsed.v), sink)

\* the try block and its catch, which takes the SyntaxError of JSON.parse and
\* the TypeError of reading a property of null alike
ProcessParsed(st, data, parsed, sink) ==
    IF ~parsed.ok \/ GetThrows(parsed.v)
    THEN AppendAndPublish(st, data, sink)
    ELSE ProcessChunk(st, data, ChunkOf(parsed.v), sink)

\* ProcessData, were only the [DONE] sentinel skipped and not the empty value
ProcessDataBlank(st, data, sink) ==
    IF data = DoneSentinel THEN st
    ELSE ProcessParsed(st, data, JSONParse(data), sink)

\* ProcessData, were the [DONE] sentinel not recognised
ProcessDataNoSentinel(st, data, sink) ==
    IF data = <<>> THEN st
    ELSE ProcessParsed(st, data, JSONParse(data), sink)

\* if (data && data !== '[DONE]') { try { ... } catch { ... } }
ProcessData(st, data, sink) ==
    IF data = <<>> \/ data = DoneSentinel THEN st
    ELSE ProcessParsed(st, data, JSONParse(data), sink)

\* ProcessLine, were the fields event: and id: not recognised
ProcessLineNoFields(st, line, sink) ==
    IF st.threw THEN st
    ELSE IF StartsWith(line, DataPrefix)
         THEN ProcessData(st, Trim(Slice(line, Len(DataPrefix))), sink)
         ELSE IF line # <<>> THEN AppendAndPublish(st, line, sink) ELSE st

\* ProcessLine, were a line that is no field appended without the whitespace
\* around it
ProcessLineTrimmed(st, line, sink) ==
    IF st.threw THEN st
    ELSE IF StartsWith(line, DataPrefix)
         THEN ProcessData(st, Trim(Slice(line, Len(DataPrefix))), sink)
         ELSE IF line # <<>> /\ ~StartsWith(line, EventPrefix) /\ ~StartsWith(line, IdPrefix)
              THEN AppendAndPublish(st, Trim(line), sink)
              ELSE st

\* one line of a complete event
ProcessLine(st, line, sink) ==
    IF st.threw THEN st
    ELSE IF StartsWith(line, DataPrefix)
         THEN ProcessData(st, Trim(Slice(line, Len(DataPrefix))), sink)
         ELSE IF line # <<>> /\ ~StartsWith(line, EventPrefix) /\ ~StartsWith(line, IdPrefix)
              THEN AppendAndPublish(st, line, sink)
              ELSE st

RECURSIVE ProcessLines(_, _, _)
ProcessLines(st, lines, sink) ==
    IF lines = <<>> THEN st
    ELSE ProcessLines(ProcessLine(st, Head(lines), sink), Tail(lines), sink)

\* for (const event of events) { const lines = event.split('\n'); ... }
RECURSIVE ProcessEvents(_, _, _)
ProcessEvents(st, events, sink) ==
    IF events = <<>> THEN st
    ELSE ProcessEvents(ProcessLines(st, Split(Head(events), Newline), sink),
                       Tail(events), sink)

\* the data: value of a line of the buffer left at end-of-stream: it is
\* appended as it is
ProcessRestData(st, data, sink) ==
    IF data # <<>> /\ data # DoneSentinel THEN AppendAndPublish(st, data, sink) ELSE st

\* one line of the buffer left at end-of-stream; a line that is not a data:
\* line is skipped
ProcessRestLine(st, line, sink) ==
    IF st.threw THEN st
    ELSE IF StartsWith(line, DataPrefix)
         THEN ProcessRestData(st, Trim(Slice(line, Len(DataPrefix))), sink)
         ELSE st

RECURSIVE ProcessRestLines(_, _, _)
ProcessRestLines(st, lines, sink) ==
    IF lines = <<>> THEN st
    ELSE ProcessRestLines(ProcessRestLine(st, Head(lines), sink), Tail(lines), sink)

\* if (buffer.trim()) { ... }
ProcessRest(st, buf, sink) ==
    IF Trim(buf) # <<>> THEN ProcessRestLines(st, Split(buf, Newline), sink) ELSE st

\* ProcessBuffer, were the unfinished event processed with the others and
\* nothing retained
ProcessBufferAll(dec, events, st, sink) ==
    [dec |-> dec, buf |-> <<>>, acc |-> ProcessEvents(st, events, sink)]

\* const events = buffer.split('\n\n'); buffer = events.pop() || '';
\* for (const event of events) ...    The state of the loop is [dec, buf, acc]
\* (decoder, buffer, decoding state).
ProcessBuffer(dec, events, st, sink) ==
    [dec |-> dec,
     buf |-> events[Len(events)],
     acc |-> ProcessEvents(st, SubSeq(events, 1, Len(events) - 1), sink)]

\* buffer += <decoded text>, then the framing
AppendDecoded(loop, d, sink) ==
    ProcessBuffer(d.st, Split(loop.buf \o d.out, BlankLine), loop.acc, sink)

\* ReadStep, were every chunk decoded on its own (decode(value) without
\* {stream: true})
ReadStepStateless(loop, value, sink) ==
    AppendDecoded(loop, [st |-> DecoderInit, out |-> DecodeAll(value)], sink)

\* one iteration of the read loop on a chunk of bytes
ReadStep(loop, value, sink) == AppendDecoded(loop, Decode(loop.dec, value), sink)

LoopInit == [dec |-> DecoderInit, buf |-> <<>>, acc |-> EmptyAcc]

\* what follows the loop, unless an exception is propagating
AfterLoop(loop, sink) ==
    IF loop.acc.threw THEN loop.acc ELSE ProcessRest(loop.acc, loop.buf, sink)

\* processSSEStream over a stream that delivers all its bytes in one read
SingleRead(bytes, sink) == AfterLoop(ReadStep(LoopInit, bytes, sink), sink)

(***************************************************************************)
(* processNonStreamingResponse: [value, calls, threw], value being what is *)
(* returned (a JavaScript value: json.response and json.content are        *)
(* returned as they are, whatever their type).                             *)
(***************************************************************************)
\* ContentOf, were content preferred to response
ContentOfContentFirst(json, text) ==
    FirstTruthy(Get(json, KeyContent), Get(json, KeyResponse), JStr(text), JStr(text))

\* json.response || json.content || text, for a parsed value that is not null
ContentOf(json, text) ==
    FirstTruthy(Get(json, KeyResponse), Get(json, KeyContent), JStr(text), JStr(text))

\* NotifyAndReturn, were the sink left out
NotifyAndReturnSilent(calls, v, sink) ==
    [value |-> v, calls |-> calls, threw |-> FALSE]

\* if (onChunk) onChunk(v); return v
NotifyAndReturn(calls, v, sink) ==
    IF ~sink.supplied THEN [value |-> v, calls |-> calls, threw |-> FALSE]
    ELSE [value |-> v, calls |-> Append(calls, v),
          threw |-> (Len(calls) + 1) \in sink.raisesAt]

\* the catch block, entered once the sink has raised in the try block
CatchNotifyError(r, text, sink) ==
    IF r.threw THEN NotifyAndReturn(r.calls, JStr(text), sink) ELSE r

\* try { const json = JSON.parse(text); ... } catch { ... }
ProcessJson(text, json, sink) ==
    IF ~json.ok \/ GetThrows(json.v)
    THEN NotifyAndReturn(<<>>, JStr(text), sink)
    ELSE CatchNotifyError(NotifyAndReturn(<<>>, ContentOf(json.v, text), sink), text, sink)

ProcessText(text, sink) == ProcessJson(text, JSONParse(text), sink)

ProcessNonStreaming(bytes, sink) == ProcessText(DecodeAll(bytes), sink)

(***************************************************************************)
(* The SSE wire format the decoder consumes, as the backend may send it.   *)
(* A line is described by                                                  *)
(*   kind   what the line is                                               *)
(*   text   the line as sent                                               *)
(*   frag   for a delta or plain-text line, the text it carries            *)
(*   shape  for a "shape" line, which of delta.text, text and content the  *)
(*          payload object has, and with what value; for an "other" line,  *)
(*          the JSON type of the payload                                   *)
(* and a stream by its frames (each a sequence of lines) and by whether    *)
(* the last frame is followed by the blank-line delimiter.                 *)
(***************************************************************************)
MaxFrames == 2
MaxLines == 2
MaxRead == 3

Quoted(str) == <<34>> \o str \o <<34>>
Member(key, lit) == Quoted(key) \o <<58>> \o lit
DataLine(payload) == DataPrefix \o <<32>> \o payload

RECURSIVE Join(_, _)
Join(ss, sep) ==
    IF ss = <<>> THEN <<>>
    ELSE IF Len(ss) = 1 THEN ss[1]
    ELSE ss[1] \o sep \o Join(Tail(ss), sep)

ObjectLit(members) == <<123>> \o Join(members, <<44>>) \o <<125>>

Line(kind, text, frag, shape) == [kind |-> kind, text |-> text, frag |-> frag, shape |-> shape]

\* data: {"delta":{"text":"<d>"}}
DeltaLine(d) ==
    Line("delta", DataLine(ObjectLit(<<Member(KeyDelta, ObjectLit(<<Member(KeyText, Quoted(d))>>))>>)),
         d, <<>>)

\* "Hel", "lo", and a two-byte character
DeltaTexts == {<<72, 101, 108>>, <<108, 111>>, <<233>>}
DeltaLines == {DeltaLine(d) : d \in DeltaTexts}

\* data: foo, data: bar
PlainTexts == {<<102, 111, 111>>, <<98, 97, 114>>}
PlainLines == {Line("plain", DataLine(t), t, <<>>) : t \in PlainTexts}

DoneLine == Line("done", DataLine(DoneSentinel), <<>>, <<>>)
EventLine == Line("event", EventPrefix \o <<32, 120>>, <<>>, <<>>)
IdLine == Line("id", IdPrefix \o <<32, 49>>, <<>>, <<>>)
EmptyDataLine == Line("emptydata", DataPrefix, <<>>, <<>>)
RawLine == Line("raw", <<102, 111, 111>>, <<102, 111, 111>>, <<>>)

\* the value a slot of a payload object holds: none, "", a one-letter string
\* naming the slot, or the number 7
SlotChoices == {"absent", "empty", "string", "number"}
SlotLetter(slot) == CASE slot = 1 -> <<100>> [] slot = 2 -> <<116>> [] slot = 3 -> <<99>>
SlotLit(slot, choice) ==
    CASE choice = "empty" -> Quoted(<<>>)
      [] choice = "string" -> Quoted(SlotLetter(slot))
      [] choice = "number" -> <<55>>

\* data: {"delta":{"text":..},"text":..,"content":..} with the chosen slots
ShapeLine(shape) ==
    LET m1 == IF shape[1] = "absent" THEN <<>>
              ELSE <<Member(KeyDelta, ObjectLit(<<Member(KeyText, SlotLit(1, shape[1]))>>))>>
        m2 == IF shape[2] = "absent" THEN <<>> ELSE <<Member(KeyText, SlotLit(2, shape[2]))>>
        m3 == IF shape[3] = "absent" THEN <<>> ELSE <<Member(KeyContent, SlotLit(3, shape[3]))>>
    IN  Line("shape", DataLine(ObjectLit(m1 \o m2 \o m3)), <<>>, shape)

ShapeLines == {ShapeLine(<<a, b, c>>) : a \in SlotChoices, b \in SlotChoices, c \in SlotChoices}

\* payloads that parse to something other than an object: 42, 0, true, [1],
\* null, and the JSON string "hi"
OtherLit(type) ==
    CASE type = "number" -> <<52, 50>>
      [] type = "zero" -> <<48>>
      [] type = "true" -> <<116, 114, 117, 101>>
      [] type = "array" -> <<91, 49, 93>>
      [] type = "null" -> <<110, 117, 108, 108>>
      [] type = "string" -> Quoted(<<104, 105>>)
OtherTypes == {"number", "zero", "true", "array", "null", "string"}
OtherLines == {Line("other", DataLine(OtherLit(ty)), <<>>, <<ty>>) : ty \in OtherTypes}

\* lines of frames that hold several lines
MixLines == {EventLine, IdLine, EmptyDataLine, RawLine, DoneLine, DeltaLine(<<108, 111>>)}

\* all sequences of 1..n elements of S
SeqsUpTo(S, n) == UNION {[1..k -> S] : k \in 1..n}

\* 1..MaxFrames delta frames, optionally followed by a [DONE] frame
DeltaStreams ==
    {[frames |-> [i \in 1..Len(ls) |-> <<ls[i]>>] \o tail, terminated |-> term] :
        ls \in SeqsUpTo(DeltaLines, MaxFrames), tail \in {<<>>, <<<<DoneLine>>>>},
        term \in BOOLEAN}

\* 1..MaxFrames plain-text frames
PlainStreams ==
    {[frames |-> [i \in 1..Len(ls) |-> <<ls[i]>>], terminated |-> term] :
        ls \in SeqsUpTo(PlainLines, MaxFrames), term \in BOOLEAN}

\* one frame holding one structured payload
PayloadStreams ==
    {[frames |-> <<<<l>>>>, terminated |-> term] :
        l \in ShapeLines \cup OtherLines, term \in BOOLEAN}

\* one frame of 2..MaxLines lines
MixStreams ==
    {[frames |-> <<ls>>, terminated |-> term] :
        ls \in SeqsUpTo(MixLines, MaxLines) \ SeqsUpTo(MixLines, 1), term \in BOOLEAN}

\* one frame of one data: line whose plain-text payload, a b, has whitespace
\* before and after it; frag is the payload without the whitespace before it
Paddings == {<<>>, <<32>>, <<32, 9>>}
PaddedLine(lead, trail) ==
    Line("padded", DataPrefix \o lead \o <<97, 32, 98>> \o trail, <<97, 32, 98>> \o trail, <<>>)
PaddedStreams ==
    {[frames |-> <<<<PaddedLine(lead, trail)>>>>, terminated |-> term] :
        lead \in Paddings, trail \in Paddings, term \in BOOLEAN}

SSEStreams ==
    DeltaStreams \cup PlainStreams \cup PayloadStreams \cup MixStreams \cup PaddedStreams

\* the calls of processSSEStream explored: every stream with a sink, the delta
\* and plain-text streams also without one
SSECalls ==
    (SSEStreams \X {QuietSink}) \cup ((DeltaStreams \cup PlainStreams) \X {NoSink})

\* the text of a stream: the lines of a frame joined by '\n', every frame
\* followed by '\n\n' but, when the stream is not terminated, the last
FrameText(frame) == Join([i \in 1..Len(frame) |-> frame[i].text], Newline)
StreamText(src) ==
    Join([i \in 1..Len(src.frames) |-> FrameText(src.frames[i])], BlankLine)
        \o (IF src.terminated THEN BlankLine ELSE <<>>)

\* all lines of a stream, in order
SrcLines(src) == Concat(src.frames)

(***************************************************************************)
(* The bodies of buffered responses.  A body is described by               *)
(*   kind   "object": an object with or without the fields response and    *)
(*          content; "other": JSON that is no object; "text": no JSON      *)
(*   text   the body as sent                                               *)
(*   shape  for an object, what response and content hold; for "other",    *)
(*          the JSON type                                                  *)
(***************************************************************************)
Body(kind, text, shape) == [kind |-> kind, text |-> text, shape |-> shape]

\* the value a field of an object body holds: none, "", a string ("42" for
\* response, "c" for content), 7, 0 or null
BodyChoices == {"absent", "empty", "string", "number", "zero", "null"}
BodyFieldText(slot) == IF slot = 1 THEN <<52, 50>> ELSE <<99>>
BodyFieldLit(slot, choice) ==
    CASE choice = "empty" -> Quoted(<<>>)
      [] choice = "string" -> Quoted(BodyFieldText(slot))
      [] choice = "number" -> <<55>>
      [] choice = "zero" -> <<48>>
      [] choice = "null" -> <<110, 117, 108, 108>>

\* {"response":..,"content":..} with the chosen fields
ObjectBody(shape) ==
    LET m1 == IF shape[1] = "absent" THEN <<>>
              ELSE <<Member(KeyResponse, BodyFieldLit(1, shape[1]))>>
        m2 == IF shape[2] = "absent" THEN <<>>
              ELSE <<Member(KeyContent, BodyFieldLit(2, shape[2]))>>
    IN  Body("object", ObjectLit(m1 \o m2), shape)

ObjectBodies == {ObjectBody(<<a, b>>) : a \in BodyChoices, b \in BodyChoices}
OtherBodies == {Body("other", OtherLit(ty), <<ty>>) : ty \in OtherTypes}

\* plain answer, a truncated object, a two-byte character, and the empty body
TextBodies ==
    {Body("text", t, <<>>) :
        t \in {<<112, 108, 97, 105, 110, 32, 97, 110, 115, 119, 101, 114>>,
               <<123>> \o Quoted(KeyResponse) \o <<58>>, <<233>>, <<>>}}

Bodies == ObjectBodies \cup OtherBodies \cup TextBodies

\* the calls of processNonStreamingResponse explored
BufferedCalls == Bodies \X {NoSink, QuietSink}

(***************************************************************************)
(* State.                                                                  *)
(***************************************************************************)
VARIABLES
    options,       \* message, history, actorId and sessionId of the call
    request,       \* the payload sent; Undefined until then
    response,      \* what client.send(command) yields
    route,         \* history: the decoder the response was handed to
    error,         \* the name or message of the error thrown; "" when none
    pc,            \* where control is
    onChunk,       \* the sink passed by the caller
    src,           \* history: the description of the response body
    stream,        \* the bytes of the response body
    pos,           \* the number of bytes of the body read so far
    decoder,       \* TextDecoder state              (agentcore.ts:105)
    buffer,        \* the text not yet framed        (agentcore.ts:107)
    acc,           \* fullResponse, with the sink calls made (agentcore.ts:106)
    readerLocked,  \* whether the reader holds the stream's lock
    result,        \* the value returned; Undefined until then
    cuts,          \* history: where the reads so far have cut the stream
    failAt,        \* the number of bytes after which reader.read() rejects; -1
                   \* when it never does
    releases,      \* history: how many times reader.releaseLock() has run
    runs,          \* the local variables of each of two executions of
                   \* processSSEStream that run side by side
    config,        \* CONFIG, and whether Cognito is configured
    user,          \* the signed-in user of the App       (part_000:151)
    state,         \* the state of the App                (part_000:158)
    storage,       \* localStorage['agentcore-session-id']
    inflight,      \* the invocations sendMessageDirect is awaiting
    last,          \* history: the invocation settled last, and how
    tally          \* the ids and session ids generated; history: the calls of
                   \* processMessage and of client.send

\* the variables of invokeAgentCoreDirect that the decoders leave alone
callVars == <<options, request, response, route, error>>

\* the variables of one call of invokeAgentCoreDirect
callState == <<callVars, pc, onChunk, src, stream, pos, decoder, buffer, acc, readerLocked,
               result, cuts, failAt, releases>>

\* the variables of the App
appVars == <<config, user, state, storage, inflight, last, tally>>

vars == <<callState, runs, appVars>>

\* no execution runs side by side with the call
NoRuns == <<>>

\* user === null
NoUser == [present |-> FALSE, email |-> <<>>, idToken |-> <<>>]

\* no invocation has been settled yet
NoLast ==
    [aid |-> 0, uid |-> 0, text |-> <<>>, ok |-> FALSE, value |-> Undefined, message |-> <<>>,
     sessionId |-> 0, chunks |-> 0]

\* the state of a decoder or of a call on its own, outside the App
NoApp ==
    /\ config = [identityPoolId |-> <<>>, agentRuntimeArn |-> <<>>, cognito |-> FALSE]
    /\ user = NoUser
    /\ state = [messages |-> <<>>, input |-> <<>>, isLoading |-> FALSE, error |-> JNull,
                sessionId |-> 0]
    /\ storage = 0
    /\ inflight = {}
    /\ last = NoLast
    /\ tally = [ids |-> 0, sessions |-> 0, attempts |-> 0, sends |-> 0]

(***************************************************************************)
(* processSSEStream.                                                       *)
(***************************************************************************)
\* stream.transformToWebStream().getReader() and the initialisations
GetReader ==
    /\ pc = "sse_start"
    /\ readerLocked' = TRUE
    /\ decoder' = DecoderInit
    /\ buffer' = <<>>
    /\ acc' = EmptyAcc
    /\ pc' = "sse_read"
    /\ UNCHANGED <<callVars, onChunk, src, stream, pos, result, cuts, failAt, releases, runs, appVars>>

\* the loop variables after an iteration that left them as `loop'
LoopInto(loop) ==
    /\ decoder' = loop.dec
    /\ buffer' = loop.buf
    /\ acc' = loop.acc
    /\ pc' = IF loop.acc.threw THEN "thrown" ELSE "sse_read"
    /\ readerLocked' = ~loop.acc.threw
    /\ releases' = IF loop.acc.threw THEN releases + 1 ELSE releases

\* the sizes of the next read when `left' bytes are left: nothing, up to
\* MaxRead bytes, or all of them
ReadSizes(left) == (0..Min(MaxRead, left)) \cup {left}

\* where a read that ended before byte `next' of the stream has cut it, given
\* the decoder and the buffer it left: inside a multi-byte character, between
\* the two newlines of a delimiter, or inside a line
CutKinds(dec, buf, next) ==
    IF dec.need > 0 THEN {"character"}
    ELSE IF buf = <<>> THEN {}
    ELSE IF buf[Len(buf)] # 10 THEN (IF next # 10 THEN {"line"} ELSE {})
    ELSE IF next = 10 THEN {"delimiter"} ELSE {}

\* the number of bytes the stream delivers before it ends or fails
Delivered == IF failAt < 0 THEN Len(stream) ELSE failAt

\* reader.read() yields the next k bytes; the loop body runs on them.  An
\* exception leaves through the finally block, which releases the lock.
Read ==
    /\ pc = "sse_read"
    /\ pos < Delivered
    /\ \E k \in ReadSizes(Delivered - pos) :
          /\ pos' = pos + k
          /\ LoopInto(ReadStep([dec |-> decoder, buf |-> buffer, acc |-> acc],
                               SubSeq(stream, pos + 1, pos + k), onChunk))
          /\ cuts' = IF pos + k < Len(stream)
                     THEN cuts \cup CutKinds(decoder', buffer', stream[pos + k + 1])
                     ELSE cuts
    /\ UNCHANGED <<callVars, onChunk, src, stream, result, failAt, runs, appVars>>

\* ReadDone, were the decoder to return only once the buffer holds no
\* unfinished frame
ReadDoneWhenFramed ==
    /\ pc = "sse_read"
    /\ failAt < 0
    /\ pos = Len(stream)
    /\ Trim(buffer) = <<>>
    /\ readerLocked' = FALSE
    /\ releases' = releases + 1
    /\ pc' = "returned"
    /\ result' = JStr(acc.fullResponse)
    /\ UNCHANGED <<callVars, onChunk, src, stream, pos, decoder, buffer, acc, cuts, failAt, runs, appVars>>

\* reader.read() reports done: the rest of the buffer is processed, the lock
\* released and fullResponse returned
ReadDone ==
    /\ pc = "sse_read"
    /\ failAt < 0
    /\ pos = Len(stream)
    /\ acc' = ProcessRest(acc, buffer, onChunk)
    /\ readerLocked' = FALSE
    /\ releases' = releases + 1
    /\ pc' = IF acc'.threw THEN "thrown" ELSE "returned"
    /\ result' = IF acc'.threw THEN Undefined ELSE JStr(acc'.fullResponse)
    /\ UNCHANGED <<callVars, onChunk, src, stream, pos, decoder, buffer, cuts, failAt, runs, appVars>>

StreamError == "stream error"

\* ReadFails, were the lock released after the loop and not in a finally block
ReadFailsLeak ==
    /\ pc = "sse_read"
    /\ failAt >= 0
    /\ pos = failAt
    /\ error' = StreamError
    /\ pc' = "thrown"
    /\ UNCHANGED <<options, request, response, route, onChunk, src, stream, pos, decoder,
                   buffer, acc, readerLocked, result, cuts, failAt, releases, runs, appVars>>

\* reader.read() rejects: the error leaves through the finally block, which
\* releases the lock, and propagates to the caller
ReadFails ==
    /\ pc = "sse_read"
    /\ failAt >= 0
    /\ pos = failAt
    /\ readerLocked' = FALSE
    /\ releases' = releases + 1
    /\ error' = StreamError
    /\ pc' = "thrown"
    /\ UNCHANGED <<options, request, response, route, onChunk, src, stream, pos, decoder,
                   buffer, acc, result, cuts, failAt, runs, appVars>>

\* the state of a call of a decoder on its own
NoCall ==
    /\ options = Undefined
    /\ request = Undefined
    /\ response = Undefined
    /\ route = "none"
    /\ error = ""

InitSSE ==
    /\ NoCall
    /\ pc = "sse_start"
    /\ \E call \in SSECalls : src = call[1] /\ onChunk = call[2]
    /\ stream = Encode(StreamText(src))
    /\ pos = 0
    /\ decoder = DecoderInit
    /\ buffer = <<>>
    /\ acc = EmptyAcc
    /\ readerLocked = FALSE
    /\ result = Undefined
    /\ cuts = {}
    /\ failAt = -1
    /\ releases = 0
    /\ runs = NoRuns
    /\ NoApp

NextSSE == GetReader \/ Read \/ ReadDone

SpecSSE == InitSSE /\ [][NextSSE]_vars

\* the streams read by a reader that may fail: the plain-text streams, and
\* two frames of deltas, one holding a two-byte character
ReadStreams ==
    PlainStreams
    \cup {[frames |-> <<<<DeltaLine(<<233>>)>>, <<DeltaLine(<<108, 111>>)>>>>, terminated |-> term] :
             term \in BOOLEAN}

\* where the reader of a stream of n bytes may fail: never, at once, halfway,
\* or when all bytes have been read
FailPoints(n) == {-1, 0, n \div 2, n}

InitReads ==
    /\ NoCall
    /\ pc = "sse_start"
    /\ src \in ReadStreams
    /\ onChunk \in {NoSink, QuietSink}
    /\ stream = Encode(StreamText(src))
    /\ failAt \in FailPoints(Len(stream))
    /\ pos = 0
    /\ decoder = DecoderInit
    /\ buffer = <<>>
    /\ acc = EmptyAcc
    /\ readerLocked = FALSE
    /\ result = Undefined
    /\ cuts = {}
    /\ releases = 0
    /\ runs = NoRuns
    /\ NoApp

NextReads == GetReader \/ Read \/ ReadFails \/ ReadDone

\* ENABLED <<Read>>_vars: some bytes are still to be delivered
ReadEnabled == pc = "sse_read" /\ pos < Delivered

\* a pending read settles: each step of the decoder is weakly fair (for Read,
\* WF_vars(Read) with its enabling condition written out)
SpecReads ==
    /\ InitReads
    /\ [][NextReads]_vars
    /\ WF_vars(GetReader)
    /\ WF_vars(ReadDone)
    /\ WF_vars(ReadFails)
    /\ ([]<>(~ReadEnabled) \/ []<><<Read>>_vars)

(***************************************************************************)
(* processSSEStream over frames of several lines: data: lines that carry   *)
(* text, that carry nothing or the sentinel, fields, empty lines and lines *)
(* that are no field.                                                      *)
(***************************************************************************)
\* data: followed by whitespace only
BlankDataLine == Line("blankdata", DataPrefix \o <<32, 9>>, <<>>, <<>>)
EmptyLine == Line("empty", <<>>, <<>>, <<>>)

\* lines that are no field: foo, a comment (:c) and an id: field after a space
RawLines ==
    {RawLine, Line("raw", <<58, 99>>, <<58, 99>>, <<>>),
     Line("raw", <<32>> \o IdPrefix \o <<49>>, <<32>> \o IdPrefix \o <<49>>, <<>>)}

\* data: followed by a two-byte character
AccentLine == Line("plain", DataLine(<<233>>), <<233>>, <<>>)

FieldLines ==
    {AccentLine, DoneLine, BlankDataLine, EventLine, IdLine, EmptyLine} \cup RawLines

\* a frame of two lines, then a frame of one
LineStreams ==
    {[frames |-> <<<<a, b>>, <<c>>>>, terminated |-> term] :
        a \in FieldLines, b \in FieldLines, c \in {AccentLine, RawLine, EventLine},
        term \in BOOLEAN}

InitLines ==
    /\ NoCall
    /\ pc = "sse_start"
    /\ src \in LineStreams
    /\ onChunk = QuietSink
    /\ stream = Encode(StreamText(src))
    /\ pos = 0
    /\ decoder = DecoderInit
    /\ buffer = <<>>
    /\ acc = EmptyAcc
    /\ readerLocked = FALSE
    /\ result = Undefined
    /\ cuts = {}
    /\ failAt = -1
    /\ releases = 0
    /\ runs = NoRuns
    /\ NoApp

SpecLines == InitLines /\ [][NextSSE]_vars

(***************************************************************************)
(* processSSEStream with a sink that raises: at its first call, at its     *)
(* second, or at both.                                                     *)
(***************************************************************************)
RaisingSinks == {[supplied |-> TRUE, raisesAt |-> at] : at \in {{1}, {2}, {1, 2}}}

\* the delta and plain-text streams whose every frame is complete
CompleteStreams == {s \in DeltaStreams \cup PlainStreams : s.terminated}

InitRaising ==
    /\ NoCall
    /\ pc = "sse_start"
    /\ src \in CompleteStreams
    /\ onChunk \in RaisingSinks
    /\ stream = Encode(StreamText(src))
    /\ pos = 0
    /\ decoder = DecoderInit
    /\ buffer = <<>>
    /\ acc = EmptyAcc
    /\ readerLocked = FALSE
    /\ result = Undefined
    /\ cuts = {}
    /\ failAt = -1
    /\ releases = 0
    /\ runs = NoRuns
    /\ NoApp

SpecRaising == InitRaising /\ [][NextSSE]_vars

(***************************************************************************)
(* Two executions of processSSEStream side by side.  Every variable of     *)
(* processSSEStream is local to the execution (agentcore.ts:104-107): an   *)
(* await of reader.read() is where the other execution may run.            *)
(***************************************************************************)
\* the local variables of an execution over the stream described by s
Run(s, sink) ==
    [pc |-> "sse_start", onChunk |-> sink, src |-> s, stream |-> Encode(StreamText(s)),
     pos |-> 0, decoder |-> DecoderInit, buffer |-> <<>>, acc |-> EmptyAcc,
     readerLocked |-> FALSE, result |-> Undefined, overlapped |-> FALSE]

\* LoopOf, were the buffer a variable of the module, which the second
\* execution finds as the first left it
LoopOfShared(rs, i) == [dec |-> rs[i].decoder, buf |-> rs[1].buffer, acc |-> rs[i].acc]

\* decoder, buffer and fullResponse as execution i finds them: its own
LoopOf(rs, i) == [dec |-> rs[i].decoder, buf |-> rs[i].buffer, acc |-> rs[i].acc]

\* history: whether some other execution is between two reads, holding text
\* it has not framed yet
OtherMidStream(rs, i) ==
    \E j \in DOMAIN rs : j # i /\ rs[j].pc = "sse_read" /\ rs[j].buffer # <<>>

\* the locals of an execution after an iteration on k bytes that left the loop
\* variables as `loop'
RunAfterRead(run, loop, k, mid) ==
    [run EXCEPT !.pos = @ + k, !.decoder = loop.dec, !.buffer = loop.buf, !.acc = loop.acc,
                !.pc = IF loop.acc.threw THEN "thrown" ELSE "sse_read",
                !.readerLocked = ~loop.acc.threw,
                !.overlapped = @ \/ mid]

\* the locals of an execution after the remainder left the accumulation as a
RunAfterDone(run, a) ==
    [run EXCEPT !.acc = a, !.readerLocked = FALSE,
                !.pc = IF a.threw THEN "thrown" ELSE "returned",
                !.result = IF a.threw THEN Undefined ELSE JStr(a.fullResponse)]

GetReaderOf(i) ==
    /\ runs[i].pc = "sse_start"
    /\ runs' = [runs EXCEPT ![i].pc = "sse_read", ![i].readerLocked = TRUE]

ReadOf(i) ==
    /\ runs[i].pc = "sse_read"
    /\ runs[i].pos < Len(runs[i].stream)
    /\ \E k \in ReadSizes(Len(runs[i].stream) - runs[i].pos) :
          runs' = [runs EXCEPT ![i] =
                      RunAfterRead(runs[i],
                                   ReadStep(LoopOf(runs, i),
                                            SubSeq(runs[i].stream, runs[i].pos + 1, runs[i].pos + k),
                                            runs[i].onChunk),
                                   k, OtherMidStream(runs, i))]

ReadDoneOf(i) ==
    /\ runs[i].pc = "sse_read"
    /\ runs[i].pos = Len(runs[i].stream)
    /\ runs' = [runs EXCEPT ![i] =
                   RunAfterDone(runs[i], ProcessRest(runs[i].acc, runs[i].buffer, runs[i].onChunk))]

PairGetReader == (\E i \in DOMAIN runs : GetReaderOf(i)) /\ UNCHANGED <<callState, appVars>>

PairRead == (\E i \in DOMAIN runs : ReadOf(i)) /\ UNCHANGED <<callState, appVars>>

PairReadDone == (\E i \in DOMAIN runs : ReadDoneOf(i)) /\ UNCHANGED <<callState, appVars>>

\* the streams of the first execution and of the second: no character of one
\* occurs in the other
FirstStreams ==
    {[frames |-> <<<<Line("plain", DataLine(<<233>>), <<233>>, <<>>)>>,
                   <<Line("plain", DataLine(<<72>>), <<72>>, <<>>)>>>>, terminated |-> term] :
        term \in BOOLEAN}
SecondStreams ==
    {[frames |-> <<<<Line("plain", DataLine(<<98, 97, 114>>), <<98, 97, 114>>, <<>>)>>,
                   <<Line("raw", <<98, 97>>, <<98, 97>>, <<>>)>>>>, terminated |-> term] :
        term \in BOOLEAN}

\* no call of invokeAgentCoreDirect is under way
NoRun ==
    /\ NoCall
    /\ pc = "idle"
    /\ onChunk = NoSink
    /\ src = [frames |-> <<>>, terminated |-> TRUE]
    /\ stream = <<>>
    /\ pos = 0
    /\ decoder = DecoderInit
    /\ buffer = <<>>
    /\ acc = EmptyAcc
    /\ readerLocked = FALSE
    /\ result = Undefined
    /\ cuts = {}
    /\ failAt = -1
    /\ releases = 0

InitPair ==
    /\ NoRun
    /\ NoApp
    /\ \E s1 \in FirstStreams, s2 \in SecondStreams, sink1 \in {NoSink, QuietSink} :
          runs = <<Run(s1, sink1), Run(s2, QuietSink)>>

NextPair == PairGetReader \/ PairRead \/ PairReadDone

SpecPair == InitPair /\ [][NextPair]_vars

(***************************************************************************)
(* processNonStreamingResponse.                                            *)
(***************************************************************************)
\* const bytes = await stream.transformToByteArray()
ReadBytes ==
    /\ pc = "buf_start"
    /\ pos' = Len(stream)
    /\ pc' = "buf_bytes"
    /\ UNCHANGED <<callVars, onChunk, src, stream, decoder, buffer, acc, readerLocked,
                   result, cuts, failAt, releases, runs, appVars>>

\* the outcome r of the rest of the function
ReturnInto(r) ==
    /\ acc' = [EmptyAcc EXCEPT !.calls = r.calls, !.threw = r.threw]
    /\ pc' = IF r.threw THEN "thrown" ELSE "returned"
    /\ result' = IF r.threw THEN Undefined ELSE r.value

\* the text is decoded and parsed, the sink notified and the value returned
DecodeBody ==
    /\ pc = "buf_bytes"
    /\ ReturnInto(ProcessNonStreaming(stream, onChunk))
    /\ UNCHANGED <<callVars, onChunk, src, stream, pos, decoder, buffer, readerLocked, cuts,
                   failAt, releases, runs, appVars>>

InitBuffered ==
    /\ NoCall
    /\ pc = "buf_start"
    /\ \E call \in BufferedCalls : src = call[1] /\ onChunk = call[2]
    /\ stream = Encode(src.text)
    /\ pos = 0
    /\ decoder = DecoderInit
    /\ buffer = <<>>
    /\ acc = EmptyAcc
    /\ readerLocked = FALSE
    /\ result = Undefined
    /\ cuts = {}
    /\ failAt = -1
    /\ releases = 0
    /\ runs = NoRuns
    /\ NoApp

NextBuffered == ReadBytes \/ DecodeBody

SpecBuffered == InitBuffered /\ [][NextBuffered]_vars

(***************************************************************************)
(* invokeAgentCoreDirect.  The options of a call are                       *)
(* [message, history, actorId, sessionId] (the sink is onChunk), actorId   *)
(* and sessionId being Undefined when the caller leaves them out.  What    *)
(* client.send yields is [outcome, error, hasBody, contentType]: the       *)
(* promise is rejected with an error, or fulfilled with an envelope that   *)
(* has a body or none and a content type or none.                          *)
(***************************************************************************)
HistoryLimit == 20

\* LastN, were the first n entries taken (s.slice(0, n))
FirstN(s, n) == IF Len(s) <= n THEN s ELSE SubSeq(s, 1, n)

\* s.slice(-n) for n > 0
LastN(s, n) == IF Len(s) <= n THEN s ELSE SubSeq(s, Len(s) - n + 1, Len(s))

\* OrDefault, were the default given to an absent value only (v ?? d)
OrDefaultNullish(v, d) == IF v.t \in {"undefined", "null"} THEN d ELSE v

\* v || d
OrDefault(v, d) == IF Truthy(v) THEN v ELSE d

\* 'anonymous'
Anonymous == <<97, 110, 111, 110, 121, 109, 111, 117, 115>>

\* the object that is serialised into the payload of the command
BuildPayload(opts) ==
    [prompt    |-> opts.message,
     history   |-> LastN(opts.history, HistoryLimit),
     actorId   |-> OrDefault(opts.actorId, JStr(Anonymous)),
     sessionId |-> OrDefault(opts.sessionId, JStr(<<>>))]

NoResponseMessage == "No response from AgentCore"

\* HasBody, were the check of response.response left out
HasBodyUnchecked(resp) == TRUE

\* response.response is there
HasBody(resp) == resp.hasBody

\* response.contentType || ''
ContentTypeOf(resp) == OrDefault(resp.contentType, JStr(<<>>)).s

\* IsSSE, were the content type compared with the media type
IsSSEExact(resp) == ContentTypeOf(resp) = SSEMediaType

\* contentType.includes('text/event-stream')
IsSSE(resp) == Includes(ContentTypeOf(resp), SSEMediaType)

\* the payload is built and the command sent
Send ==
    /\ pc = "invoke_start"
    /\ request' = BuildPayload(options)
    /\ pc' = "awaiting"
    /\ UNCHANGED <<options, response, route, error, onChunk, src, stream, pos, decoder,
                   buffer, acc, readerLocked, result, cuts, failAt, releases, runs, appVars>>

\* await client.send(command) raises what the transport raised
SendRejected ==
    /\ pc = "awaiting"
    /\ response.outcome = "rejected"
    /\ error' = response.error
    /\ pc' = "thrown"
    /\ UNCHANGED <<options, request, response, route, onChunk, src, stream, pos, decoder,
                   buffer, acc, readerLocked, result, cuts, failAt, releases, runs, appVars>>

\* if (!response.response) throw new Error('No response from AgentCore')
NoResponse ==
    /\ pc = "awaiting"
    /\ response.outcome = "fulfilled"
    /\ ~HasBody(response)
    /\ error' = NoResponseMessage
    /\ pc' = "thrown"
    /\ UNCHANGED <<options, request, response, route, onChunk, src, stream, pos, decoder,
                   buffer, acc, readerLocked, result, cuts, failAt, releases, runs, appVars>>

\* return await processSSEStream(response.response, onChunk)
RouteSSE ==
    /\ pc = "awaiting"
    /\ response.outcome = "fulfilled"
    /\ HasBody(response)
    /\ IsSSE(response)
    /\ route' = "sse"
    /\ pc' = "sse_start"
    /\ UNCHANGED <<options, request, response, error, onChunk, src, stream, pos, decoder,
                   buffer, acc, readerLocked, result, cuts, failAt, releases, runs, appVars>>

\* return await processNonStreamingResponse(response.response, onChunk)
RouteBuffered ==
    /\ pc = "awaiting"
    /\ response.outcome = "fulfilled"
    /\ HasBody(response)
    /\ ~IsSSE(response)
    /\ route' = "buffered"
    /\ pc' = "buf_start"
    /\ UNCHANGED <<options, request, response, error, onChunk, src, stream, pos, decoder,
                   buffer, acc, readerLocked, result, cuts, failAt, releases, runs, appVars>>

\* a history of n messages, numbered in order
HistoryOf(n) ==
    [i \in 1..n |-> [role |-> IF i % 2 = 1 THEN "user" ELSE "assistant", content |-> i]]

CallOptions(n, actorId, sessionId) ==
    [message |-> <<104, 105>>, history |-> HistoryOf(n), actorId |-> actorId,
     sessionId |-> sessionId]

\* the options explored: histories shorter than, as long as and longer than
\* the limit; actorId and sessionId left out, empty and given
InvokeOptions ==
    {CallOptions(0, Undefined, Undefined),
     CallOptions(HistoryLimit, JStr(<<>>), JStr(<<>>)),
     CallOptions(HistoryLimit + 1, JStr(<<117>>), JStr(<<115>>)),
     CallOptions(HistoryLimit + 3, JStr(<<117>>), Undefined)}

\* absent, '', the SSE media type, alone and with a parameter, and
\* application/json
ContentTypes ==
    {Undefined, JStr(<<>>), JStr(SSEMediaType),
     JStr(SSEMediaType \o <<59, 32, 99, 104, 97, 114, 115, 101, 116, 61, 117, 116, 102, 45, 56>>),
     JStr(<<97, 112, 112, 108, 105, 99, 97, 116, 105, 111, 110, 47, 106, 115, 111, 110>>)}

\* the bodies explored: "Hel", "lo" and [DONE] in frames, data: foo without
\* its delimiter, {"response":"42"} and plain answer
InvokeBodies ==
    {[frames |-> <<<<DeltaLine(<<72, 101, 108>>)>>, <<DeltaLine(<<108, 111>>)>>, <<DoneLine>>>>,
      terminated |-> TRUE],
     [frames |-> <<<<Line("plain", DataLine(<<102, 111, 111>>), <<102, 111, 111>>, <<>>)>>>>,
      terminated |-> FALSE],
     ObjectBody(<<"string", "absent">>),
     Body("text", <<112, 108, 97, 105, 110, 32, 97, 110, 115, 119, 101, 114>>, <<>>)}

NoBody == Body("none", <<>>, <<>>)

Envelope(outcome, err, hasBody, contentType) ==
    [outcome |-> outcome, error |-> err, hasBody |-> hasBody, contentType |-> contentType]

\* what the transport may yield, with the body that comes with it
Responses ==
    {<<Envelope("rejected", "ServiceUnavailableException", FALSE, Undefined), NoBody>>}
    \cup {<<Envelope("fulfilled", "", FALSE, ct), NoBody>> : ct \in ContentTypes}
    \cup {<<Envelope("fulfilled", "", TRUE, ct), b>> :
              ct \in ContentTypes, b \in InvokeBodies}

\* the bytes of a body
BodyBytes(b) ==
    IF "frames" \in DOMAIN b THEN Encode(StreamText(b)) ELSE Encode(b.text)

Init ==
    /\ pc = "invoke_start"
    /\ options \in InvokeOptions
    /\ onChunk \in {NoSink, QuietSink}
    /\ \E r \in Responses : response = r[1] /\ src = r[2]
    /\ stream = BodyBytes(src)
    /\ request = Undefined
    /\ route = "none"
    /\ error = ""
    /\ pos = 0
    /\ decoder = DecoderInit
    /\ buffer = <<>>
    /\ acc = EmptyAcc
    /\ readerLocked = FALSE
    /\ result = Undefined
    /\ cuts = {}
    /\ failAt = -1
    /\ releases = 0
    /\ runs = NoRuns
    /\ NoApp

Next ==
    \/ Send
    \/ SendRejected
    \/ NoResponse
    \/ RouteSSE
    \/ RouteBuffered
    \/ GetReader
    \/ Read
    \/ ReadDone
    \/ ReadBytes
    \/ DecodeBody

Spec == Init /\ [][Next]_vars

(***************************************************************************)
(* The chat application (App.tsx).  A state update is a function of the    *)
(* previous state (setState(prev => ...)) and a handler runs on the state  *)
(* of the last render, which React brings up to date before the next       *)
(* event.  An invocation in flight is what sendMessageDirect awaits: the   *)
(* sink values invokeAgentCoreDirect publishes, then the value it returns  *)
(* or the error it throws.                                                 *)
(***************************************************************************)
MaxSends == 2
MaxSessions == 2

\* 'AgentCore is not configured. Please set environment variables.'
ConfigError ==
    <<65, 103, 101, 110, 116, 67, 111, 114, 101, 32, 105, 115, 32, 110, 111,
      116, 32, 99, 111, 110, 102, 105, 103, 117, 114, 101, 100, 46, 32, 80,
      108, 101, 97, 115, 101, 32, 115, 101, 116, 32, 101, 110, 118, 105, 114,
      111, 110, 109, 101, 110, 116, 32, 118, 97, 114, 105, 97, 98, 108, 101,
      115, 46>>
\* 'Authentication required'
AuthRequired ==
    <<65, 117, 116, 104, 101, 110, 116, 105, 99, 97, 116, 105, 111, 110, 32,
      114, 101, 113, 117, 105, 114, 101, 100>>
\* 'Agent Core is currently unavailable'
Unavailable ==
    <<65, 103, 101, 110, 116, 32, 67, 111, 114, 101, 32, 105, 115, 32, 99,
      117, 114, 114, 101, 110, 116, 108, 121, 32, 117, 110, 97, 118, 97, 105,
      108, 97, 98, 108, 101>>
\* 'Request timed out, please try again'
TimedOut ==
    <<82, 101, 113, 117, 101, 115, 116, 32, 116, 105, 109, 101, 100, 32, 111,
      117, 116, 44, 32, 112, 108, 101, 97, 115, 101, 32, 116, 114, 121, 32,
      97, 103, 97, 105, 110>>
\* 'Please enter a valid message'
InvalidInput ==
    <<80, 108, 101, 97, 115, 101, 32, 101, 110, 116, 101, 114, 32, 97, 32,
      118, 97, 108, 105, 100, 32, 109, 101, 115, 115, 97, 103, 101>>
\* 'Network error occurred'
NetworkError ==
    <<78, 101, 116, 119, 111, 114, 107, 32, 101, 114, 114, 111, 114, 32, 111,
      99, 99, 117, 114, 114, 101, 100>>
\* 'Session expired'
SessionExpired ==
    <<83, 101, 115, 115, 105, 111, 110, 32, 101, 120, 112, 105, 114, 101,
      100>>

\* the messages of the errors invokeAgentCoreDirect throws
Failures ==
    {SessionExpired \o <<46>>, <<53, 48, 50>>, <<53, 48, 52>>, <<52, 48, 48>>, <<52, 48, 49>>,
     <<116, 105, 109, 101, 111, 117, 116>>}

HandleError(message) ==
    IF Includes(message, SessionExpired) THEN message
    ELSE IF Includes(message, <<53, 48, 50>>) THEN Unavailable
    ELSE IF Includes(message, <<53, 48, 52>>) THEN TimedOut
    ELSE IF Includes(message, <<52, 48, 48>>) THEN InvalidInput
    ELSE IF Includes(message, <<52, 48, 49>>) THEN AuthRequired
    ELSE NetworkError

\* IsDirectCallConfigured, were one identifier enough
IsDirectCallConfiguredEither(cfg) ==
    Truthy(JStr(cfg.identityPoolId)) \/ Truthy(JStr(cfg.agentRuntimeArn))

\* Boolean(CONFIG.identityPoolId && CONFIG.agentRuntimeArn)
IsDirectCallConfigured(cfg) ==
    Truthy(JStr(cfg.identityPoolId)) /\ Truthy(JStr(cfg.agentRuntimeArn))

\* the chat is rendered unless Cognito is enabled and nobody is signed in
ChatShown == ~(config.cognito /\ ~user.present)

SignedIn == [present |-> TRUE, email |-> <<117>>, idToken |-> <<116>>]

\* what the user may type
Inputs == {<<>>, <<32, 104, 105, 32>>}

\* a suggestion chip
Suggestion == <<83, 81, 83>>

MessageOf(id, role, content) == [id |-> id, role |-> role, content |-> content]

\* messages.map(msg => msg.id === id ? {...msg, content} : msg)
SetContent(messages, id, content) ==
    [k \in 1..Len(messages) |->
        IF messages[k].id = id THEN [messages[k] EXCEPT !.content = content] ELSE messages[k]]

\* Without, were the placeholder found by its role
WithoutAssistant(messages, id) == SelectSeq(messages, LAMBDA m : m.role # "assistant")

\* messages.filter(m => m.id !== id)
Without(messages, id) == SelectSeq(messages, LAMBDA m : m.id # id)

\* the update of processMessage before the invocation
Pushed(st, userMessage, assistantMessage) ==
    [st EXCEPT !.messages = @ \o <<userMessage, assistantMessage>>,
               !.input = <<>>, !.isLoading = TRUE, !.error = JNull]

\* the update of processMessage after sendMessageDirect has returned
Succeeded(st, aid, returned) ==
    [st EXCEPT !.messages = SetContent(@, aid, returned), !.isLoading = FALSE]

\* Failed, were the placeholder left in the list
FailedKeepingTurn(st, aid, message) ==
    [st EXCEPT !.error = JStr(HandleError(message)), !.isLoading = FALSE]

\* the update of processMessage in its catch block
Failed(st, aid, message) ==
    [st EXCEPT !.messages = Without(@, aid),
               !.error = JStr(HandleError(message)), !.isLoading = FALSE]

\* what an invocation publishes and returns
Reply(streamed, calls, value) == [streamed |-> streamed, calls |-> calls, value |-> value]

\* the reply processSSEStream makes of a stream
StreamedReply(a) ==
    Reply(TRUE, [k \in 1..Len(a.calls) |-> JStr(a.calls[k])], JStr(a.fullResponse))

\* the reply processNonStreamingResponse makes of a body
BufferedReply(r) == Reply(FALSE, r.calls, r.value)

\* the replies of the agent: two frames of deltas, and a JSON body
Replies ==
    {StreamedReply(SingleRead(Encode(StreamText(s)), QuietSink)) :
        s \in {[frames |-> <<<<DeltaLine(<<72, 101, 108>>)>>, <<DeltaLine(<<108, 111>>)>>>>,
                terminated |-> TRUE]}}
    \cup {BufferedReply(ProcessNonStreaming(BodyBytes(b), QuietSink)) :
            b \in {ObjectBody(<<"string", "absent">>)}}

\* the invocation sendMessageDirect starts for the placeholder aid
Invocation(aid, uid, message, reply) ==
    [aid |-> aid, uid |-> uid, message |-> message, actorId |-> user.email,
     sessionId |-> state.sessionId, reply |-> reply, delivered |-> 0]

\* history: how the invocation inv was settled
Settled(inv, ok, value, message) ==
    [aid |-> inv.aid, uid |-> inv.uid, text |-> inv.message, ok |-> ok, value |-> value,
     message |-> message, sessionId |-> inv.sessionId, chunks |-> inv.delivered]

\* processMessage(message); sendMessageDirect throws at once when no identity
\* token is at hand, and the catch block runs before any other event
ProcessMessage(message) ==
    /\ tally.attempts < MaxSends
    /\ IF ~IsDirectCallConfigured(config)
       THEN /\ state' = [state EXCEPT !.error = JStr(ConfigError)]
            /\ tally' = [tally EXCEPT !.attempts = @ + 1]
            /\ UNCHANGED <<inflight, last>>
       ELSE LET uid == tally.ids + 1
                aid == tally.ids + 2
                pushed == Pushed(state, MessageOf(uid, "user", JStr(message)),
                                 MessageOf(aid, "assistant", JStr(<<>>)))
            IN  IF ~Truthy(JStr(user.idToken))
                THEN /\ state' = Failed(pushed, aid, AuthRequired)
                     /\ last' = Settled(Invocation(aid, uid, message, Reply(FALSE, <<>>, Undefined)),
                                        FALSE, Undefined, AuthRequired)
                     /\ tally' = [tally EXCEPT !.ids = @ + 2, !.attempts = @ + 1]
                     /\ UNCHANGED inflight
                ELSE /\ state' = pushed
                     /\ \E reply \in Replies :
                           inflight' = inflight \cup {Invocation(aid, uid, message, reply)}
                     /\ tally' = [tally EXCEPT !.ids = @ + 2, !.attempts = @ + 1, !.sends = @ + 1]
                     /\ UNCHANGED last
    /\ UNCHANGED <<callState, runs, config, user, storage>>

\* onChange of the input box, which is disabled while loading
ChangeInput ==
    /\ ChatShown
    /\ ~state.isLoading
    /\ \E text \in Inputs \ {state.input} : state' = [state EXCEPT !.input = text]
    /\ UNCHANGED <<callState, runs, config, user, storage, inflight, last, tally>>

HandleSubmit ==
    /\ ChatShown
    /\ Trim(state.input) # <<>>
    /\ ~state.isLoading
    /\ ProcessMessage(Trim(state.input))

\* the chips are rendered while the list is empty and nothing is loading
HandleSuggestionClick ==
    /\ ChatShown
    /\ state.messages = <<>>
    /\ ~state.isLoading
    /\ ProcessMessage(Suggestion)

\* the sink sendMessageDirect passes: the placeholder shows the chunk
OnChunk ==
    /\ \E inv \in inflight :
          /\ inv.delivered < Len(inv.reply.calls)
          /\ state' = [state EXCEPT
                          !.messages = SetContent(@, inv.aid, inv.reply.calls[inv.delivered + 1])]
          /\ inflight' = (inflight \ {inv}) \cup {[inv EXCEPT !.delivered = @ + 1]}
    /\ UNCHANGED <<callState, runs, config, user, storage, last, tally>>

\* invokeAgentCoreDirect returns, once it has published what it had to
Resolve ==
    /\ \E inv \in inflight :
          /\ inv.delivered = Len(inv.reply.calls)
          /\ state' = Succeeded(state, inv.aid, inv.reply.value)
          /\ inflight' = inflight \ {inv}
          /\ last' = Settled(inv, TRUE, inv.reply.value, <<>>)
    /\ UNCHANGED <<callState, runs, config, user, storage, tally>>

\* invokeAgentCoreDirect throws: before anything was published, or while the
\* stream is read
Reject ==
    /\ \E inv \in inflight, message \in Failures :
          /\ inv.reply.streamed \/ inv.delivered = 0
          /\ state' = Failed(state, inv.aid, message)
          /\ inflight' = inflight \ {inv}
          /\ last' = Settled(inv, FALSE, Undefined, message)
    /\ UNCHANGED <<callState, runs, config, user, storage, tally>>

\* ResetTo, were the new id shown but not stored
ResetToUnstored(newSessionId, st) ==
    /\ tally.sessions < MaxSessions
    /\ newSessionId = tally.sessions + 1
    /\ storage' = storage
    /\ state' = st
    /\ tally' = [tally EXCEPT !.sessions = newSessionId]

\* the session id a reset generates, stores and shows
ResetTo(newSessionId, st) ==
    /\ tally.sessions < MaxSessions
    /\ newSessionId = tally.sessions + 1
    /\ storage' = newSessionId
    /\ state' = st
    /\ tally' = [tally EXCEPT !.sessions = newSessionId]

HandleLogout ==
    /\ ChatShown
    /\ user.present
    /\ user' = NoUser
    /\ \E newSessionId \in 1..MaxSessions :
          ResetTo(newSessionId,
                  [messages |-> <<>>, input |-> <<>>, isLoading |-> FALSE, error |-> JNull,
                   sessionId |-> newSessionId])
    /\ UNCHANGED <<callState, runs, config, inflight, last>>

\* signIn resolves and setUser(authUser) runs
HandleLogin ==
    /\ config.cognito
    /\ ~user.present
    /\ user' = SignedIn
    /\ UNCHANGED <<callState, runs, config, state, storage, inflight, last, tally>>

\* the button is disabled while loading and while the list is empty
HandleNewConversation ==
    /\ ChatShown
    /\ ~state.isLoading
    /\ state.messages # <<>>
    /\ \E newSessionId \in 1..MaxSessions :
          ResetTo(newSessionId,
                  [state EXCEPT !.messages = <<>>, !.error = JNull, !.sessionId = newSessionId])
    /\ UNCHANGED <<callState, runs, config, user, inflight, last>>

\* localStorage.getItem('agentcore-session-id'), or a new id stored
GetOrCreateSessionId(stored, newId) == IF stored # 0 THEN stored ELSE newId

\* the page is loaded again: the component state is built anew around the
\* stored session id, the stored Cognito session is looked up (it may have
\* lapsed), and the promises of the page that went away call nothing back
Reload ==
    /\ storage' = GetOrCreateSessionId(storage, tally.sessions + 1)
    /\ state' = [messages |-> <<>>, input |-> <<>>, isLoading |-> FALSE, error |-> JNull,
                 sessionId |-> storage']
    /\ tally' = IF storage # 0 THEN tally ELSE [tally EXCEPT !.sessions = @ + 1]
    /\ user' \in {NoUser} \cup (IF user.present THEN {user} ELSE {})
    /\ inflight' = {}
    /\ UNCHANGED <<callState, runs, config, last>>

Configs ==
    {[identityPoolId |-> pool, agentRuntimeArn |-> arn, cognito |-> cognito] :
        pool \in {<<>>, <<112>>}, arn \in {<<>>, <<97>>}, cognito \in BOOLEAN}

\* the App once the check of the stored Cognito session has come back
InitApp ==
    /\ NoRun
    /\ runs = NoRuns
    /\ config \in Configs
    /\ user \in (IF config.cognito THEN {NoUser, SignedIn} ELSE {NoUser})
    /\ \E stored \in {0, 1} :
          /\ storage = GetOrCreateSessionId(stored, 1)
          /\ state = [messages |-> <<>>, input |-> <<>>, isLoading |-> FALSE, error |-> JNull,
                      sessionId |-> storage]
    /\ inflight = {}
    /\ last = NoLast
    /\ tally = [ids |-> 0, sessions |-> 1, attempts |-> 0, sends |-> 0]

NextApp ==
    \/ ChangeInput
    \/ HandleSubmit
    \/ HandleSuggestionClick
    \/ OnChunk
    \/ Resolve
    \/ Reject
    \/ HandleLogout
    \/ HandleLogin
    \/ HandleNewConversation
    \/ Reload

SpecApp == InitApp /\ [][NextApp]_vars

(***************************************************************************)
(* Properties of processSSEStream.  The sink of a call is absent or        *)
(* returns normally, as the sink the application passes does               *)
(* (sendMessageDirect: it only schedules a state update).                  *)
(***************************************************************************)
\* the texts a stream's delta and plain-text lines carry, in stream order
RECURSIVE FragsOf(_)
FragsOf(lines) ==
    IF lines = <<>> THEN <<>>
    ELSE (IF Head(lines).kind \in {"delta", "plain"} THEN <<Head(lines).frag>> ELSE <<>>)
         \o FragsOf(Tail(lines))

\* f1, f1 f2, ..., f1 ... fn
Cumulative(fs) == [k \in 1..Len(fs) |-> Concat(SubSeq(fs, 1, k))]

\* the sink calls expected of a call whose appends are fs
ExpectedCalls(fs) == IF onChunk.supplied THEN Cumulative(fs) ELSE <<>>

\* every frame of the stream holds one line of the kind, but the last may
\* hold the [DONE] sentinel
FramesOf(kind) ==
    /\ \A i \in 1..Len(src.frames) : Len(src.frames[i]) = 1
    /\ src.frames[1][1].kind = kind
    /\ \A i \in 1..Len(src.frames) :
          \/ src.frames[i][1].kind = kind
          \/ i = Len(src.frames) /\ src.frames[i][1].kind = "done"

\* every frame that carries text is followed by the delimiter
TextFramesTerminated ==
    src.terminated \/ src.frames[Len(src.frames)][1].kind = "done"

\* the stream is one frame of one line of the kind
OneLine(kind) ==
    Len(src.frames) = 1 /\ Len(src.frames[1]) = 1 /\ src.frames[1][1].kind = kind

TheLine == src.frames[1][1]

\* C1: however the reads cut the stream, processSSEStream returns the text (and
\* has made the sink calls) that it returns when the whole stream comes in one
\* read.
C1_RechunkingInvariance ==
    pc = "returned" =>
        /\ result = JStr(SingleRead(stream, onChunk).fullResponse)
        /\ acc.calls = SingleRead(stream, onChunk).calls

\* a call has returned text whose reads cut the stream inside a two-byte
\* character, inside a line and between the newlines of a delimiter
C1_Witness ==
    /\ pc = "returned"
    /\ cuts = {"character", "line", "delimiter"}
    /\ 233 \in {result.s[i] : i \in 1..Len(result.s)}

\* C2: n delimiter-terminated frames of one delta line each, with or without a
\* final [DONE] frame, make n sink calls d1, d1 d2, ..., d1...dn and the result
\* d1...dn.
C2_DeltaFrames ==
    (pc = "returned" /\ FramesOf("delta") /\ TextFramesTerminated) =>
        /\ acc.calls = ExpectedCalls(FragsOf(SrcLines(src)))
        /\ result = JStr(Concat(FragsOf(SrcLines(src))))

\* "Hel", "lo" and [DONE] have given the calls "Hel", "Hello" and the result
\* "Hello"
C2_Witness ==
    /\ pc = "returned"
    /\ FramesOf("delta") /\ Len(src.frames) = 3 /\ src.terminated
    /\ acc.calls = << <<72, 101, 108>>, <<72, 101, 108, 108, 111>> >>
    /\ result = JStr(<<72, 101, 108, 108, 111>>)

\* C3: delimiter-terminated frames of one plain-text data: line each make one
\* append per payload, in stream order, a sink call with the cumulative text
\* after each, and the concatenation of the payloads as result.
C3_PlainFrames ==
    (pc = "returned" /\ FramesOf("plain") /\ src.terminated) =>
        /\ acc.frags = FragsOf(SrcLines(src))
        /\ acc.calls = ExpectedCalls(FragsOf(SrcLines(src)))
        /\ result = JStr(Concat(FragsOf(SrcLines(src))))

\* data: foo and data: bar have given the calls "foo", "foobar" and the result
\* "foobar"
C3_Witness ==
    /\ pc = "returned"
    /\ FramesOf("plain") /\ src.terminated
    /\ acc.calls = << <<102, 111, 111>>, <<102, 111, 111, 98, 97, 114>> >>
    /\ result = JStr(<<102, 111, 111, 98, 97, 114>>)

\* C4: a stream whose last frame lacks the delimiter gives the text and the
\* sink calls of the same stream followed by the delimiter.
C4_RemainderSameRules ==
    (pc = "returned" /\ ~src.terminated) =>
        /\ result = JStr(SingleRead(stream \o Encode(BlankLine), onChunk).fullResponse)
        /\ acc.calls = SingleRead(stream \o Encode(BlankLine), onChunk).calls

\* C5: every sink call receives the concatenation of the fragments appended so
\* far, each call strictly extends the one before, and the text returned is the
\* last call's argument (the empty text when nothing was appended).
C5_CumulativeSink ==
    /\ acc.fullResponse = Concat(acc.frags)
    /\ onChunk.supplied =>
          /\ Len(acc.calls) = Len(acc.frags)
          /\ \A k \in 1..Len(acc.calls) : acc.calls[k] = Concat(SubSeq(acc.frags, 1, k))
          /\ \A k \in 2..Len(acc.calls) :
                /\ Len(acc.calls[k]) > Len(acc.calls[k - 1])
                /\ SubSeq(acc.calls[k], 1, Len(acc.calls[k - 1])) = acc.calls[k - 1]
          /\ pc = "returned" =>
                result = JStr(IF acc.calls = <<>> THEN <<>> ELSE acc.calls[Len(acc.calls)])

\* a call has returned after two appends, each followed by a sink call
C5_Witness ==
    /\ pc = "returned"
    /\ Len(acc.frags) = 2 /\ Len(acc.calls) = 2
    /\ acc.calls[2] = acc.calls[1] \o acc.frags[2]
    /\ result = JStr(acc.calls[2])

\* String(v) of the payloads of OtherLit that are neither object nor string
TextOf(type) ==
    CASE type = "number" -> <<52, 50>>
      [] type = "zero" -> <<48>>
      [] type = "true" -> <<116, 114, 117, 101>>
      [] type = "array" -> <<49>>
      [] type = "null" -> <<110, 117, 108, 108>>

\* the payload of the stream's one line is a number, a boolean or an array
NeitherObjectNorString ==
    OneLine("other") /\ TheLine.shape[1] \in {"number", "zero", "true", "array"}

\* the payload of the stream's one line is the object {}
EmptyObject == OneLine("shape") /\ TheLine.shape = <<"absent", "absent", "absent">>

\* C6, as claimed: a payload that parses but is neither an object with a known
\* text field nor a string is appended as its text representation, with a
\* sink call.
C6_CoercedAndAppended ==
    (pc = "returned" /\ NeitherObjectNorString /\ src.terminated) =>
        /\ result = JStr(TextOf(TheLine.shape[1]))
        /\ acc.calls = <<TextOf(TheLine.shape[1])>>

\* C6, amended: in a delimiter-terminated frame such a payload (a number, a
\* boolean, an array, an object without the known fields) is dropped, with no
\* append and no sink call; only the payload null is appended, as the text null.
C6_DroppedUnlessNull ==
    /\ (pc = "returned" /\ src.terminated /\ (NeitherObjectNorString \/ EmptyObject)) =>
          acc.frags = <<>> /\ acc.calls = <<>> /\ result = JStr(<<>>)
    /\ (pc = "returned" /\ src.terminated /\ OneLine("other") /\ TheLine.shape[1] = "null") =>
          /\ acc.frags = <<TextOf("null")>>
          /\ acc.calls = <<TextOf("null")>>
          /\ result = JStr(TextOf("null"))

\* the frame data: 42 has been processed and the call has returned the empty text
C6_Witness ==
    /\ pc = "returned" /\ src.terminated
    /\ OneLine("other") /\ TheLine.shape[1] = "number"
    /\ acc.calls = <<>> /\ result = JStr(<<>>)

\* the first of delta.text, text and content that is present (0 when none is)
FirstPresentSlot(shape) ==
    IF shape[1] # "absent" THEN 1
    ELSE IF shape[2] # "absent" THEN 2
    ELSE IF shape[3] # "absent" THEN 3 ELSE 0

\* the first of delta.text, text and content whose value is truthy: a
\* non-empty string or a number other than zero (0 when none is)
IsTruthyChoice(choice) == choice \in {"string", "number"}
FirstTruthySlot(shape) ==
    IF IsTruthyChoice(shape[1]) THEN 1
    ELSE IF IsTruthyChoice(shape[2]) THEN 2
    ELSE IF IsTruthyChoice(shape[3]) THEN 3 ELSE 0

\* what the object of the shape appends when `slot' is the location used: the
\* slot's value when it is a non-empty string, nothing otherwise
AppendsOf(shape, slot) ==
    IF slot > 0 /\ shape[slot] = "string" THEN <<SlotLetter(slot)>> ELSE <<>>

\* C7, as claimed: the location used is the first that exists.
C7_FirstExisting ==
    (pc = "returned" /\ OneLine("shape") /\ ~EmptyObject /\ src.terminated) =>
        /\ acc.frags = AppendsOf(TheLine.shape, FirstPresentSlot(TheLine.shape))
        /\ result = JStr(Concat(AppendsOf(TheLine.shape, FirstPresentSlot(TheLine.shape))))

\* C7, amended: the location used is the first whose value is truthy (present,
\* not empty, not zero), so an absent or empty delta.text falls through to text,
\* then to content; the value is appended only if it is a non-empty string.
C7_FirstTruthy ==
    (pc = "returned" /\ OneLine("shape") /\ src.terminated) =>
        /\ acc.frags = AppendsOf(TheLine.shape, FirstTruthySlot(TheLine.shape))
        /\ acc.calls = ExpectedCalls(AppendsOf(TheLine.shape, FirstTruthySlot(TheLine.shape)))
        /\ result = JStr(Concat(AppendsOf(TheLine.shape, FirstTruthySlot(TheLine.shape))))

\* {"delta":{"text":""},"text":"t"} has been processed and "t" returned
C7_Witness ==
    /\ pc = "returned" /\ src.terminated
    /\ OneLine("shape") /\ TheLine.shape = <<"empty", "string", "absent">>
    /\ result = JStr(<<116>>)

(***************************************************************************)
(* Properties of processNonStreamingResponse.                              *)
(***************************************************************************)
\* the value a field of an object body holds
BodyFieldValue(slot, choice) ==
    CASE choice = "absent" -> Undefined
      [] choice = "empty" -> JStr(<<>>)
      [] choice = "string" -> JStr(BodyFieldText(slot))
      [] choice = "number" -> JNum(<<55>>)
      [] choice = "zero" -> JNum(<<48>>)
      [] choice = "null" -> JNull

\* C8: a supplied sink is invoked exactly once, with the value returned (no
\* sink call is made when none is supplied).
C8_SingleEmission ==
    pc = "returned" =>
        acc.calls = IF onChunk.supplied THEN <<result>> ELSE <<>>

\* the body {"response":"42"} has given one sink call "42" and the result "42"
C8_Witness ==
    /\ pc = "returned"
    /\ src.kind = "object" /\ src.shape = <<"string", "absent">>
    /\ acc.calls = <<JStr(<<52, 50>>)>>
    /\ result = JStr(<<52, 50>>)

\* C9, as claimed: the response field when the body has one, else the content
\* field when it has one, else the raw text; the raw text when the body does
\* not parse.
C9_FirstPresentField ==
    pc = "returned" =>
        result = IF src.kind # "object" THEN JStr(src.text)
                 ELSE IF src.shape[1] # "absent" THEN BodyFieldValue(1, src.shape[1])
                 ELSE IF src.shape[2] # "absent" THEN BodyFieldValue(2, src.shape[2])
                 ELSE JStr(src.text)

\* C9, amended: the response field when its value is truthy (present, not
\* empty, not zero, not null), else the content field when its value is truthy,
\* else the raw text; the raw text when the body does not parse, and when it
\* parses to something that is no object.
C9_FirstTruthyField ==
    pc = "returned" =>
        result = IF src.kind # "object" THEN JStr(src.text)
                 ELSE IF src.shape[1] \in {"string", "number"}
                      THEN BodyFieldValue(1, src.shape[1])
                 ELSE IF src.shape[2] \in {"string", "number"}
                      THEN BodyFieldValue(2, src.shape[2])
                 ELSE JStr(src.text)

\* the body {"response":"","content":"c"} has given the result "c"
C9_Witness ==
    /\ pc = "returned"
    /\ src.kind = "object" /\ src.shape = <<"empty", "string">>
    /\ result = JStr(<<99>>)

(***************************************************************************)
(* Properties of invokeAgentCoreDirect.                                    *)
(***************************************************************************)
\* C10: when the envelope has no body the call fails with the error 'No
\* response from AgentCore': no decoder is entered, no byte is read, the sink
\* is never invoked and nothing is returned.
C10_NoBodyFails ==
    (response.outcome = "fulfilled" /\ ~response.hasBody) =>
        /\ pc \in {"invoke_start", "awaiting", "thrown"}
        /\ route = "none"
        /\ pos = 0
        /\ acc.calls = <<>>
        /\ result = Undefined
        /\ pc = "thrown" => error = NoResponseMessage

\* a call with a sink has failed on an envelope without body that declares the
\* SSE media type
C10_Witness ==
    /\ pc = "thrown"
    /\ response.outcome = "fulfilled" /\ ~response.hasBody
    /\ response.contentType = JStr(SSEMediaType)
    /\ onChunk.supplied
    /\ error = NoResponseMessage

\* the content types of ContentTypes that contain text/event-stream
DeclaresSSE ==
    /\ response.contentType.t = "string"
    /\ Len(response.contentType.s) >= Len(SSEMediaType)
    /\ SubSeq(response.contentType.s, 1, Len(SSEMediaType)) = SSEMediaType

\* C11: a body is consumed by exactly one decoder, the streaming decoder if
\* the content type contains text/event-stream and the buffered decoder
\* otherwise (absent, empty and other content types included); what the call
\* returns is what that decoder returns.
C11_RoutedByContentType ==
    /\ pc \in {"sse_start", "sse_read"} => route = "sse"
    /\ pc \in {"buf_start", "buf_bytes"} => route = "buffered"
    /\ route # "none" =>
          /\ response.outcome = "fulfilled" /\ response.hasBody
          /\ route = IF DeclaresSSE THEN "sse" ELSE "buffered"
    /\ (pc = "returned" /\ DeclaresSSE) =>
          result = JStr(SingleRead(stream, onChunk).fullResponse)
    /\ (pc = "returned" /\ ~DeclaresSSE) =>
          result = ProcessNonStreaming(stream, onChunk).value

\* a body declared as text/event-stream; charset=utf-8 has been read by the
\* streaming decoder
C11_Witness ==
    /\ pc = "returned"
    /\ "frames" \in DOMAIN src
    /\ response.contentType.t = "string"
    /\ Len(response.contentType.s) > Len(SSEMediaType)
    /\ route = "sse"
    /\ result = JStr(<<72, 101, 108, 108, 111>>)

\* C16: the history of the payload is the caller's history when that has at
\* most 20 entries and its last 20 entries otherwise, in their order and
\* unchanged.
C16_LastTwentyEntries ==
    pc # "invoke_start" =>
        LET h == options.history
            k == IF Len(h) <= 20 THEN Len(h) ELSE 20
        IN  /\ Len(request.history) = k
            /\ \A i \in 1..k : request.history[i] = h[Len(h) - k + i]

\* a call with a history of 23 messages has sent the messages 4 to 23
C16_Witness ==
    /\ pc # "invoke_start"
    /\ Len(options.history) = 23
    /\ Len(request.history) = 20
    /\ request.history[1] = options.history[4]
    /\ request.history[20] = options.history[23]

\* C17, as claimed: actorId is anonymous when the caller gave none and the
\* caller's value otherwise; sessionId is empty when the caller gave none and
\* the caller's value otherwise.
C17_DefaultsWhenAbsent ==
    pc # "invoke_start" =>
        /\ request.actorId = IF options.actorId.t = "undefined" THEN JStr(Anonymous)
                             ELSE options.actorId
        /\ request.sessionId = IF options.sessionId.t = "undefined" THEN JStr(<<>>)
                               ELSE options.sessionId

\* C17, amended: actorId is anonymous when the caller gave none or gave the
\* empty text, and the caller's value otherwise; sessionId as claimed.
C17_DefaultsWhenAbsentOrEmpty ==
    pc # "invoke_start" =>
        /\ request.actorId = IF options.actorId.t = "undefined" \/ options.actorId = JStr(<<>>)
                             THEN JStr(Anonymous)
                             ELSE options.actorId
        /\ request.sessionId = IF options.sessionId.t = "undefined" THEN JStr(<<>>)
                               ELSE options.sessionId

\* a call with the empty actorId has sent anonymous
C17_Witness ==
    /\ pc # "invoke_start"
    /\ options.actorId = JStr(<<>>)
    /\ request.actorId = JStr(Anonymous)

\* C15, as claimed: whatever the payloads and the body, a decoder whose reads
\* succeed and whose sink returns completes normally and returns a text.
C15_AlwaysText ==
    /\ pc # "thrown"
    /\ pc = "returned" => result.t = "string"

\* C20, as claimed: the value of a data: line is what follows the prefix
\* without its leading whitespace; the whitespace that ends a plain-text
\* payload is appended with it.
C20_LeadingWhitespaceOnly ==
    (pc = "returned" /\ OneLine("padded")) => result = JStr(TheLine.frag)

\* C20, amended: the value of a data: line is what follows the prefix without
\* its leading and its trailing whitespace; the characters between, whitespace
\* included, are appended as they are.
C20_BothEndsTrimmed ==
    (pc = "returned" /\ OneLine("padded")) =>
        /\ result = JStr(<<97, 32, 98>>)
        /\ acc.calls = << <<97, 32, 98>> >>

\* the line data: a b followed by a space and a tab has given the result a b
C20_Witness ==
    /\ pc = "returned"
    /\ OneLine("padded")
    /\ TheLine.frag = <<97, 32, 98, 32, 9>>
    /\ result = JStr(<<97, 32, 98>>)

(***************************************************************************)
(* Properties of processSSEStream over a reader that may fail.             *)
(***************************************************************************)
\* C13: the reader's lock, once acquired, is released exactly once before
\* control leaves the decoder, when the stream ends and when a read rejects;
\* in the latter case the error reaches the caller and nothing is returned.
C13_ReleasedExactlyOnce ==
    /\ pc = "sse_start" => ~readerLocked /\ releases = 0
    /\ pc = "sse_read" => readerLocked /\ releases = 0
    /\ pc \in {"returned", "thrown"} => ~readerLocked /\ releases = 1
    /\ (pc \in {"returned", "thrown"} /\ failAt >= 0) =>
          pc = "thrown" /\ error = StreamError /\ result = Undefined
    /\ (pc \in {"returned", "thrown"} /\ failAt < 0) => pc = "returned"

\* a read has rejected after a sink call, and the lock has been released
C13_Witness ==
    /\ pc = "thrown"
    /\ failAt > 0
    /\ Len(acc.calls) > 0
    /\ ~readerLocked /\ releases = 1
    /\ error = StreamError

\* C14: a decoder whose stream reports its end returns the accumulated text:
\* it returns in the step in which the end is reported, whatever the buffer
\* holds.
C14_TerminatesAtEnd ==
    /\ (failAt < 0) ~> (pc = "returned")
    /\ [](pc = "returned" => result = JStr(acc.fullResponse))
    /\ [][(pc = "sse_read" /\ pos' = pos /\ pos = Len(stream) /\ failAt < 0)
            => pc' = "returned"]_vars

\* a decoder has returned though the buffer held an unfinished frame at the end
C14_Witness ==
    /\ pc = "returned"
    /\ failAt < 0
    /\ Trim(buffer) # <<>>
    /\ result # JStr(<<>>)

(***************************************************************************)
(* Properties of two executions of processSSEStream side by side.          *)
(***************************************************************************)
\* whether p is a prefix of s
IsPrefix(p, s) == Len(p) <= Len(s) /\ p = SubSeq(s, 1, Len(p))

\* whether the execution `run' has done, so far and once returned, what the
\* execution `alone' over its stream did
AgreesWith(run, alone) ==
    /\ IsPrefix(run.acc.fullResponse, alone.fullResponse)
    /\ IsPrefix(run.acc.calls, alone.calls)
    /\ run.pc # "thrown"
    /\ run.pc = "returned" =>
          /\ run.result = JStr(alone.fullResponse)
          /\ run.acc.calls = alone.calls

\* C12: two executions over different streams, their reads interleaved in any
\* order, do not interfere: at every moment the text and the sink values of
\* each are a prefix of what it produces when run alone, so nothing of the
\* other stream is in them, and once returned they are all of it.
C12_NoInterference ==
    \A i \in DOMAIN runs :
        AgreesWith(runs[i], SingleRead(runs[i].stream, runs[i].onChunk))

\* both executions have returned, each having read while the other held text
\* it had not framed yet
C12_Witness ==
    /\ DOMAIN runs = {1, 2}
    /\ \A i \in DOMAIN runs :
          /\ runs[i].pc = "returned"
          /\ runs[i].overlapped
          /\ Len(runs[i].acc.calls) = 2
    /\ runs[1].result = JStr(<<233, 72>>)
    /\ runs[2].result # runs[1].result

(***************************************************************************)
(* Properties of the chat application.                                     *)
(***************************************************************************)
\* the identity-pool identifier or the agent endpoint identifier is missing
Unconfigured == config.identityPoolId = <<>> \/ config.agentRuntimeArn = <<>>

\* C18: while the identity-pool identifier or the agent endpoint identifier is
\* missing, client.send is never called and no invocation is awaited; every
\* call of processMessage shows the configuration error and leaves nothing
\* loading or in flight that could repeat the attempt.
C18_ConfigurationErrorFirst ==
    /\ [](Unconfigured =>
            /\ tally.sends = 0
            /\ inflight = {}
            /\ ~state.isLoading
            /\ state.messages = <<>>
            /\ state.error \in {JNull, JStr(ConfigError)})
    /\ [][(Unconfigured /\ tally'.attempts # tally.attempts) =>
            /\ state'.error = JStr(ConfigError)
            /\ tally'.attempts = tally.attempts + 1
            /\ tally'.sends = 0
            /\ inflight' = {}]_vars

\* processMessage has run twice with one identifier set and the other
\* missing, for a signed-in user: the configuration error is shown
C18_Witness ==
    /\ Unconfigured
    /\ config.identityPoolId # <<>>
    /\ user.present
    /\ tally.attempts = 2
    /\ tally.sends = 0
    /\ state.error = JStr(ConfigError)

\* the ids of the messages of a list
IdsOf(messages) == {messages[k].id : k \in 1..Len(messages)}

\* whether the list holds the message id with the content given
Holds(messages, id, role, content) ==
    \E k \in 1..Len(messages) : messages[k] = MessageOf(id, role, content)

\* C19: when an invocation fails, after any number of sink updates, its
\* placeholder is no longer in the list, every other message of the list is
\* kept (the user's message among them, in the conversation it was sent in),
\* an error message is shown and isLoading is false; when it succeeds, the
\* content of its placeholder is the value returned and isLoading is false.
C19_SettledTurn ==
    [][last' # last =>
         /\ ~state'.isLoading
         /\ last'.ok =>
               /\ \A k \in 1..Len(state'.messages) :
                     state'.messages[k].id = last'.aid =>
                        state'.messages[k].content = last'.value
               /\ IdsOf(state'.messages) = IdsOf(state.messages)
               /\ state'.sessionId = last'.sessionId =>
                     /\ Holds(state'.messages, last'.aid, "assistant", last'.value)
                     /\ Holds(state'.messages, last'.uid, "user", JStr(last'.text))
         /\ ~last'.ok =>
               /\ last'.aid \notin IdsOf(state'.messages)
               /\ IdsOf(state.messages) \ {last'.aid} \subseteq IdsOf(state'.messages)
               /\ state'.error = JStr(HandleError(last'.message))
               /\ state'.error.s # <<>>
               /\ state'.sessionId = last'.sessionId =>
                     Holds(state'.messages, last'.uid, "user", JStr(last'.text))
    ]_vars

\* an invocation has failed after a sink update: the list ends with the
\* user's message, the error is shown and nothing is loading
C19_Witness ==
    /\ ~last.ok
    /\ last.chunks > 0
    /\ state.sessionId = last.sessionId
    /\ state.messages = <<MessageOf(last.uid, "user", JStr(last.text))>>
    /\ state.error = JStr(Unavailable)
    /\ ~state.isLoading

(***************************************************************************)
(* Properties of processSSEStream over frames of several lines.            *)
(***************************************************************************)
\* the stream without its lines of the kinds given; a frame may be left
\* without lines
Strip(s, kinds) ==
    [frames |-> [i \in 1..Len(s.frames) |-> SelectSeq(s.frames[i], LAMBDA l : l.kind \notin kinds)],
     terminated |-> s.terminated]

\* what processSSEStream makes of the stream described by s when run alone
Alone(s) == SingleRead(Encode(StreamText(s)), onChunk)

\* whether the call has returned the text and made the sink calls of `alone'
SameOutcome(alone) ==
    /\ result = JStr(alone.fullResponse)
    /\ acc.calls = alone.calls

\* the kinds of a data: line whose trimmed value is empty or the sentinel
SkippedKinds == {"done", "blankdata"}

\* the lines of the frames followed by the delimiter
CompleteLines ==
    Concat(IF src.terminated THEN src.frames ELSE SubSeq(src.frames, 1, Len(src.frames) - 1))

\* the texts that lines of complete frames carry, in order: the payload of a
\* plain-text data: line and the whole of a line that is no field
RECURSIVE TextsOf(_)
TextsOf(lines) ==
    IF lines = <<>> THEN <<>>
    ELSE (IF Head(lines).kind \in {"plain", "raw"} THEN <<Head(lines).frag>> ELSE <<>>)
         \o TextsOf(Tail(lines))

\* C21: a data: line whose trimmed value is empty or [DONE] appends nothing,
\* calls the sink for nothing and does not end the decoding: the call returns
\* the text, and makes the sink calls, of the stream without such lines, and
\* the lines of complete frames before and after it are appended as usual.
C21_SentinelSkipped ==
    pc = "returned" =>
        /\ SameOutcome(Alone(Strip(src, SkippedKinds)))
        /\ SubSeq(acc.frags, 1, Len(TextsOf(CompleteLines))) = TextsOf(CompleteLines)

\* the sentinel came first, in a frame with a line that is no field, and a
\* frame with text followed: both texts were returned
C21_Witness ==
    /\ pc = "returned"
    /\ src.frames[1][1].kind = "done"
    /\ src.frames[1][2].kind = "raw"
    /\ src.frames[2][1].kind = "plain"
    /\ src.terminated
    /\ Len(acc.calls) = 2
    /\ result = JStr(src.frames[1][2].frag \o <<233>>)

\* the stream is terminated, its three lines being a data: line with text, a
\* line that is no field and a data: line with text again
TextAroundRaw ==
    /\ src.terminated
    /\ src.frames[1][1].kind = "plain"
    /\ src.frames[1][2].kind = "raw"
    /\ src.frames[2][1].kind = "plain"

\* C22: every non-empty line of a complete frame that starts with none of
\* data:, event: and id: is appended as it is and the text accumulated so far
\* published, in the order of the lines, data: lines included.
C22_RawLinesVerbatim ==
    /\ \A i \in 1..Len(acc.frags) :
          i <= Len(TextsOf(CompleteLines)) => acc.frags[i] = TextsOf(CompleteLines)[i]
    /\ acc.calls = Cumulative(acc.frags)
    /\ pc = "returned" =>
          /\ Len(acc.frags) >= Len(TextsOf(CompleteLines))
          /\ src.terminated => result = JStr(Concat(TextsOf(CompleteLines)))

\* a line that is no field stood between two data: lines: three sink calls,
\* the text of the line in the middle
C22_Witness ==
    /\ pc = "returned"
    /\ TextAroundRaw
    /\ Len(acc.calls) = 3
    /\ acc.calls[2] = <<233>> \o src.frames[1][2].text
    /\ result = JStr(<<233>> \o src.frames[1][2].text \o <<233>>)

\* the kinds of the lines that carry nothing: the fields event: and id:, and
\* the empty line
NeutralKinds == {"event", "id", "empty"}

\* the stream without its frames that hold no line; the frames kept are
\* followed by the delimiter as they were
WithoutEmptyFrames(s) ==
    [frames |-> SelectSeq(s.frames, LAMBDA f : f # <<>>),
     terminated |-> s.terminated \/ s.frames[Len(s.frames)] = <<>>]

\* C23: lines that start with event: or id:, empty lines and empty frames
\* change neither the text returned nor the sink calls: the call returns the
\* text and makes the sink calls of the stream without such lines, and of the
\* stream without such lines and without the frames they leave empty; when
\* every frame is complete there is one sink call for each line with text.
C23_FieldsAndEmptyLinesNeutral ==
    pc = "returned" =>
        /\ SameOutcome(Alone(Strip(src, NeutralKinds)))
        /\ SameOutcome(Alone(WithoutEmptyFrames(Strip(src, NeutralKinds))))
        /\ src.terminated => Len(acc.calls) = Len(TextsOf(SrcLines(src)))

\* an id: line before a data: line, then an unfinished frame of an event:
\* line alone: one sink call, the text of the data: line returned
C23_Witness ==
    /\ pc = "returned"
    /\ src.frames[1][1].kind = "id"
    /\ src.frames[1][2].kind = "plain"
    /\ src.frames[2][1].kind = "event"
    /\ ~src.terminated
    /\ acc.calls = <<<<233>>>>
    /\ result = JStr(<<233>>)

\* all text decoded so far: what the decoder has made of the bytes read
DecodedSoFar == Decode(DecoderInit, SubSeq(stream, 1, pos)).out

\* whether the buffer is what follows the last of the delimiters that split
\* the text, and the decoding state what the events before it amount to,
\* each processed once and in order
FramedOnce(events) ==
    /\ buffer = events[Len(events)]
    /\ acc = ProcessEvents(EmptyAcc, SubSeq(events, 1, Len(events) - 1), onChunk)

\* C24: after each read has been processed the buffer holds no delimiter, it
\* is the end of the text decoded so far, from behind the last delimiter (or
\* all of it when there is none), and the events before that delimiter, no
\* more and no less, have been processed, once each and in order.
C24_BufferInvariant ==
    pc = "sse_read" =>
        /\ ~Includes(buffer, BlankLine)
        /\ \/ buffer = DecodedSoFar
           \/ /\ Len(buffer) + Len(BlankLine) <= Len(DecodedSoFar)
              /\ SubSeq(DecodedSoFar, Len(DecodedSoFar) - Len(buffer) - 1, Len(DecodedSoFar))
                    = BlankLine \o buffer
        /\ FramedOnce(Split(DecodedSoFar, BlankLine))

\* between two reads, after a frame that ended with an empty line and whose
\* text was appended, the buffer holds the newline left over and the start
\* of the next frame
C24_Witness ==
    /\ pc = "sse_read"
    /\ pos < Len(stream)
    /\ acc.frags = <<<<233>>>>
    /\ Len(buffer) > 1
    /\ buffer[1] = 10
    /\ decoder.need > 0

(***************************************************************************)
(* Properties of processSSEStream with a sink that raises.                 *)
(***************************************************************************)
\* C29: each data: line adds at most one fragment to the accumulated response
\* and makes at most one sink call, also when the sink raises: the fragments
\* appended are the texts of the first data: lines of the stream, one each,
\* none being the payload as it was sent, and there is no sink call without
\* a fragment of its own.
C29_AtMostOncePerLine ==
    /\ Len(acc.frags) <= Len(FragsOf(SrcLines(src)))
    /\ acc.frags = SubSeq(FragsOf(SrcLines(src)), 1, Len(acc.frags))
    /\ Len(acc.calls) <= Len(FragsOf(SrcLines(src)))

\* ---------------------------------------------------------------------------
\* The App: invocations in flight, resets and the session id

\* C25: whatever the user does (submit, suggestion click, logout, login, new
\* conversation), the App never has two invocations in flight at once.
C25_OneInFlight == Cardinality(inflight) <= 1

\* the invocations a step publishes a chunk of, resolves or rejects
Touched ==
    {inv \in inflight \ inflight' :
        \/ [inv EXCEPT !.delivered = @ + 1] \in inflight'
        \/ last'.aid = inv.aid}

\* C26: a sink update, the final response or the failure of an invocation
\* started before the last reset (a logout or a new conversation) leaves the
\* message list of the conversation shown as it is.
C26_ResetShieldsConversation ==
    [][(\E inv \in Touched : inv.sessionId # state.sessionId)
          => state'.messages = state.messages]_vars

\* an invocation of the conversation before the reset has failed while the new
\* conversation shows a turn of its own, which is still waiting
C26_Witness ==
    /\ last.aid # 0
    /\ ~last.ok
    /\ last.sessionId # state.sessionId
    /\ Len(state.messages) = 2
    /\ \E inv \in inflight :
          /\ inv.sessionId = state.sessionId
          /\ state.messages[2].id = inv.aid

\* C27: a message sent while nobody with an identity token is signed in makes
\* no invocation, and the error shown for it is the authentication-required
\* message.
C27_AuthenticationRequiredShown ==
    (last.aid = tally.ids /\ last.aid # 0 /\ ~last.ok /\ last.message = AuthRequired
        /\ state.sessionId = last.sessionId)
    => /\ \A inv \in inflight : inv.aid # last.aid
       /\ tally.sends = 0
       /\ state.error = JStr(AuthRequired)

\* C28: the session id shown is the one stored, at every moment; a step that
\* generates no id (a send, a chunk, a settlement, a login, a reload) leaves
\* both as they are, and a logout or a new conversation puts the same new id,
\* never used before, in both.
C28_SessionIdInStep ==
    /\ [](state.sessionId = storage /\ storage # 0)
    /\ [][/\ tally'.sessions = tally.sessions
             => (state'.sessionId = state.sessionId /\ storage' = storage)
          /\ tally'.sessions # tally.sessions
             => /\ state'.sessionId = storage'
                /\ storage' = tally'.sessions
                /\ storage' > tally.sessions
          /\ (state'.messages = <<>> /\ state.messages # <<>> /\ tally' # tally)
             => tally'.sessions # tally.sessions]_vars

\* a conversation was reset and the page then loaded again: the id of the
\* reset is shown and stored
C28_Witness ==
    /\ tally.sessions = 2
    /\ state.sessionId = 2
    /\ storage = 2
    /\ state.messages = <<>>
    /\ tally.sends > 0
    /\ inflight = {}
    /\ last.aid = 0

====
